---- MODULE Spec2Model ----
(***************************************************************************)
(* Background Remover Pro: the image-processing core.                      *)
(*                                                                         *)
(*   services/apiService.js      removeBackground, validateImage           *)
(*   utils/imageProcessing.js    validateImageFile, ensureProcessableImage,*)
(*                               manipulateAlphaByColorMatch, ...          *)
(*   components/ImageProcessor   processImage, checkImageDimensions        *)
(*                                                                         *)
(* A run exercises one exported operation, named by `entry`.  Event        *)
(* handlers (the Promise executor, FileReader and Image callbacks, the     *)
(* continuation of an await) are atomic: JavaScript runs each to           *)
(* completion.                                                             *)
(*                                                                         *)
(* Pixel data is the flat RGBA byte array of the source (data[i] is        *)
(* At(data, i)).  A buffer is [length, tile]: `length` is data.length and  *)
(* `tile` holds the bytes of one period, data[i] = tile[i mod Len(tile)].  *)
(* A small image is its own tile (Len(tile) = length); a large image       *)
(* (millions of pixels) is a periodic one, which the per-pixel loops treat *)
(* exactly, since what they do to a pixel depends on that pixel alone.     *)
(***************************************************************************)
EXTENDS Integers, Sequences, FiniteSets, TLC

\* ------------------------------------------------------------- bounds
\* Largest image whose pixels are enumerated one by one.
MaxPixels == 3

\* ------------------------------------------------ program constants
\* apiService.js
MAX_DIMENSION_SIDE == 8000
MAX_TOTAL_IMAGE_PIXELS == 30000000
colorMatchTolerance == 45
\* 20 * 1024 * 1024
maxSizeInBytes == 20971520
\* imageProcessing.js; 15 * 1024 * 1024
MAX_FILE_SIZE_BYTES == 15728640
MAX_PROCESSING_DIMENSION_SIDE == 4000

validTypes == {"image/jpeg", "image/png", "image/webp", "image/jpg"}
VALID_IMAGE_TYPES == {"image/jpeg", "image/png", "image/webp", "image/jpg"}

\* MAX_TOTAL_IMAGE_PIXELS * 1.5
MAX_ITERATIONS == (MAX_TOTAL_IMAGE_PIXELS * 3) \div 2

None == "none"
\* The result of a promise that has none.
NoResult == [mime |-> None]

Min(a, b) == IF a < b THEN a ELSE b
Max(a, b) == IF a > b THEN a ELSE b

Last(s) == s[Len(s)]

IsPrefix(s, t) == Len(s) <= Len(t) /\ SubSeq(t, 1, Len(s)) = s

\* ------------------------------------------------------------ buffers
\* data[i], for 0 <= i < data.length
At(data, i) == data.tile[(i % Len(data.tile)) + 1]

\* data.length / 4
PixelCount(data) == data.length \div 4

\* The pixels that differ in a periodic buffer: one per slot of the tile.
Slots(data) == 0 .. (Len(data.tile) \div 4) - 1

\* Math.round(n / d) for n >= 0, d > 0
Round(n, d) == (2 * n + d) \div (2 * d)

\* Math.floor of a coordinate given in halves (3 stands for 1.5).
FloorHalf(c2) == c2 \div 2

\* ------------------------------------------- double-precision arithmetic
\* A positive double is [int, frac]: its integer part and the bits of its
\* fraction, most significant first.  Quotients, products and sums are
\* rounded to 53 significant bits, ties to even, as the
\* Number type of the language does.
MANTISSA_BITS == 53

RECURSIVE BitLength(_)
BitLength(n) == IF n = 0 THEN 0 ELSE 1 + BitLength(n \div 2)

\* Long division of r / b (0 <= r < b) by n more binary places: the bits
\* found and the remainder left, the places taken half by half.
RECURSIVE LongDivision(_, _, _)
LongDivision(r, b, n) ==
    IF n = 0 THEN [bits |-> <<>>, rem |-> r]
    ELSE IF n = 1
    THEN IF 2 * r >= b THEN [bits |-> <<1>>, rem |-> 2 * r - b]
         ELSE [bits |-> <<0>>, rem |-> 2 * r]
    ELSE LET first == LongDivision(r, b, n \div 2)
             second == LongDivision(first.rem, b, n - n \div 2)
         IN  [bits |-> first.bits \o second.bits, rem |-> second.rem]

\* Zero bits at the head of a bit sequence.
LeadingZeros(bits) ==
    IF \A k \in 1 .. Len(bits) : bits[k] = 0 THEN Len(bits)
    ELSE (CHOOSE k \in 1 .. Len(bits) :
             bits[k] = 1 /\ \A j \in 1 .. k - 1 : bits[j] = 0) - 1

\* One more in the last place of [int, frac]: the carry runs up to the
\* last 0 bit, or into the integer part.
AddUlp(x) ==
    LET zeros == {k \in 1 .. Len(x.frac) : x.frac[k] = 0}
    IN  IF zeros = {}
        THEN [int |-> x.int + 1, frac |-> [k \in 1 .. Len(x.frac) |-> 0]]
        ELSE LET z == CHOOSE k \in zeros : \A j \in zeros : j <= k
             IN  [int |-> x.int,
                  frac |-> [k \in 1 .. Len(x.frac) |->
                               IF k < z THEN x.frac[k]
                               ELSE IF k = z THEN 1 ELSE 0]]

\* [int, frac], with `sticky` telling that more follows the bits given,
\* rounded to MANTISSA_BITS significant bits, ties to even.
RoundToDouble(x, sticky) ==
    LET keep == IF x.int > 0 THEN MANTISSA_BITS - BitLength(x.int)
                ELSE LeadingZeros(x.frac) + MANTISSA_BITS
    IN  IF Len(x.frac) <= keep THEN x
        ELSE LET kept == [int |-> x.int, frac |-> SubSeq(x.frac, 1, keep)]
                 more == sticky \/ \E j \in keep + 2 .. Len(x.frac) : x.frac[j] = 1
                 odd == IF keep = 0 THEN x.int % 2 = 1 ELSE x.frac[keep] = 1
             IN  IF x.frac[keep + 1] = 1 /\ (more \/ odd)
                 THEN AddUlp(kept)
                 ELSE kept

\* a / b as a double, for 0 < a <= b.
DivDouble(a, b) ==
    IF a = b THEN [int |-> 1, frac |-> <<>>]
    ELSE LET head == LeadingZeros(LongDivision(a, b, BitLength(b) + 1).bits)
             q == LongDivision(a, b, head + MANTISSA_BITS + 1)
         IN  RoundToDouble([int |-> 0, frac |-> q.bits], q.rem # 0)

\* The exact product of the bits lo .. hi of a fraction and the integer t,
\* with a carry coming in from the right: the bits and the carry going out.
RECURSIVE TimesInt(_, _, _, _, _)
TimesInt(bits, lo, hi, t, carry) ==
    IF lo > hi THEN [bits |-> <<>>, carry |-> carry]
    ELSE IF lo = hi
    THEN [bits |-> <<(bits[lo] * t + carry) % 2>>,
          carry |-> (bits[lo] * t + carry) \div 2]
    ELSE LET mid == (lo + hi) \div 2
             right == TimesInt(bits, mid + 1, hi, t, carry)
         IN  IF right.carry = 0
             THEN LET left == TimesInt(bits, lo, mid, t, 0)
                  IN  [bits |-> left.bits \o right.bits, carry |-> left.carry]
             ELSE LET left == TimesInt(bits, lo, mid, t, right.carry)
                  IN  [bits |-> left.bits \o right.bits, carry |-> left.carry]

\* x * t as a double.
MulDouble(x, t) ==
    LET p == TimesInt(x.frac, 1, Len(x.frac), t, 0)
    IN  RoundToDouble([int |-> x.int * t + p.carry, frac |-> p.bits], FALSE)

\* Math.round(x): the nearest integer, halves upwards.
MathRound(x) ==
    x.int + (IF Len(x.frac) >= 1 /\ x.frac[1] = 1 THEN 1 ELSE 0)

\* A bit sequence continued with zeros to n places.
PadBits(bits, n) == [k \in 1 .. n |-> IF k <= Len(bits) THEN bits[k] ELSE 0]

\* The exact sum of the bits lo .. hi of two fractions of one length, with
\* a carry coming in from the right: the bits and the carry going out.
RECURSIVE AddBits(_, _, _, _, _)
AddBits(a, b, lo, hi, carry) ==
    IF lo > hi THEN [bits |-> <<>>, carry |-> carry]
    ELSE IF lo = hi
    THEN [bits |-> <<(a[lo] + b[lo] + carry) % 2>>,
          carry |-> (a[lo] + b[lo] + carry) \div 2]
    ELSE LET mid == (lo + hi) \div 2
             right == AddBits(a, b, mid + 1, hi, carry)
         IN  IF right.carry = 0
             THEN LET left == AddBits(a, b, lo, mid, 0)
                  IN  [bits |-> left.bits \o right.bits, carry |-> left.carry]
             ELSE LET left == AddBits(a, b, lo, mid, 1)
                  IN  [bits |-> left.bits \o right.bits, carry |-> left.carry]

\* x + y as a double.
AddDouble(x, y) ==
    LET n == Max(Len(x.frac), Len(y.frac))
        sum == AddBits(PadBits(x.frac, n), PadBits(y.frac, n), 1, n, 0)
    IN  RoundToDouble([int |-> x.int + y.int + sum.carry, frac |-> sum.bits],
                      FALSE)

\* A decimal literal of thousandths, such as 0.299: the double nearest to
\* n / 1000.
Thousandths(n) == DivDouble(n, 1000)

\* ---------------------------------------------------------- validators
\* validateImage with the size test written `>=`: a file of exactly the
\* maximum size is refused.
validateImageExclusive(file) ==
    IF ~file.present THEN "Empty"
    ELSE IF file.type \notin validTypes THEN "InvalidType"
    ELSE IF file.size >= maxSizeInBytes THEN "FileTooLarge"
    ELSE "ok"

\* validateImage(file): "ok" for `return true`, else the kind of the Error
\* thrown.
validateImage(file) ==
    IF ~file.present THEN "Empty"
    ELSE IF file.type \notin validTypes THEN "InvalidType"
    ELSE IF file.size > maxSizeInBytes THEN "FileTooLarge"
    ELSE "ok"

\* The destructuring defaults of validateImageFile / ensureProcessableImage:
\* an option the caller left out (not in options.given) takes its default.
OptMaxFileSize(options) ==
    IF "maxFileSize" \in options.given THEN options.maxFileSize
    ELSE MAX_FILE_SIZE_BYTES

OptAllowedTypes(options) ==
    IF "allowedTypes" \in options.given THEN options.allowedTypes
    ELSE VALID_IMAGE_TYPES

\* validateImageFile(file, options)
validateImageFile(file, options) ==
    IF ~file.present THEN "Empty"
    ELSE IF ~file.isFile THEN "NotAFile"
    ELSE IF file.type \notin OptAllowedTypes(options) THEN "InvalidType"
    ELSE IF file.size > OptMaxFileSize(options) THEN "FileTooLarge"
    ELSE "ok"

\* ------------------------------------------------------ colour distance
\* calculateRgbDistance squared: the radicand of the Math.sqrt.
calculateRgbDistanceSq(c1, c2) ==
    (c1.r - c2.r) * (c1.r - c2.r)
    + (c1.g - c2.g) * (c1.g - c2.g)
    + (c1.b - c2.b) * (c1.b - c2.b)

\* Math.sqrt(d2) <= t and Math.sqrt(d2) < t, for an integer radicand and an
\* integer t.
SqrtLe(d2, t) == t >= 0 /\ d2 <= t * t
SqrtLt(d2, t) == t > 0 /\ d2 < t * t

\* ------------------------------------ manipulateAlphaByColorMatch
\* The test of `if (distance <= tolerance)` for the pixel at byte i.
ManipMatches(data, i, targetRgb, tolerance) ==
    SqrtLe(calculateRgbDistanceSq(
               [r |-> At(data, i), g |-> At(data, i + 1), b |-> At(data, i + 2)],
               targetRgb),
           tolerance)

\* The write of one iteration of the loop, on the tile.
ManipWrite(tile, i, matches) ==
    IF matches THEN [tile EXCEPT ![i + 3 + 1] = 0] ELSE tile

\* The for loop over the pixels, from byte i on: the bytes it leaves.
RECURSIVE ManipLoop(_, _, _, _)
ManipLoop(data, i, targetRgb, tolerance) ==
    IF i >= Len(data.tile) THEN data
    ELSE ManipLoop(
             [data EXCEPT !.tile =
                 ManipWrite(data.tile, i,
                            ManipMatches(data, i, targetRgb, tolerance))],
             i + 4, targetRgb, tolerance)

\* Math.floor((processedPixels / totalPixels) * 100), in doubles: 29 of
\* 100 pixels give 28, as 0.29 * 100 is 28.999999999999996.
ManipPercent(processedPixels, totalPixels) ==
    MulDouble(DivDouble(processedPixels, totalPixels), 100).int

\* The `if (onProgress)` block of the iteration at byte i, on
\* st = [last |-> lastReportedProgress, log |-> the values passed so far].
ManipProgressStep(st, i, length) ==
    LET progress == ManipPercent((i \div 4) + 1, length \div 4)
    IN  IF progress > st.last
        THEN [last |-> progress, log |-> Append(st.log, progress)]
        ELSE st

\* The onProgress calls of the iterations for pixels lo .. hi-1, in order.
\* The range is walked as two halves, the first to its end before the
\* second starts, which keeps the evaluation shallow; the iterations are
\* the loop's, in the loop's order.  Once 100 has been reported no later
\* iteration reports (a percentage is at most 100), so the second half is
\* then left out.
RECURSIVE ManipProgress(_, _, _, _)
ManipProgress(st, lo, hi, length) ==
    IF lo >= hi THEN st
    ELSE IF hi = lo + 1 THEN ManipProgressStep(st, 4 * lo, length)
    ELSE LET first == ManipProgress(st, lo, (lo + hi) \div 2, length)
         IN  IF first.last >= 100 THEN first
             ELSE ManipProgress(first, (lo + hi) \div 2, hi, length)

\* The trailing block without its branch for the empty image.
ManipFinalProgressNoEmpty(length, p) ==
    IF p.last < 100 /\ length \div 4 > 0 THEN Append(p.log, 100)
    ELSE p.log

\* The two trailing `onProgress(100)` branches.
ManipFinalProgress(length, p) ==
    IF p.last < 100 /\ length \div 4 > 0 THEN Append(p.log, 100)
    ELSE IF length \div 4 = 0 THEN Append(p.log, 100)
    ELSE p.log

\* manipulateAlphaByColorMatch(imageData, targetRgb, tolerance, onProgress):
\* the function returns normally on every input (threw = FALSE); `data` is
\* imageData.data afterwards, `progress` the values passed to onProgress,
\* `scanned` the pixels the loop visited.
manipulateAlphaByColorMatch(data, targetRgb, tolerance, onProgress) ==
    [threw    |-> FALSE,
     data     |-> ManipLoop(data, 0, targetRgb, tolerance),
     scanned  |-> PixelCount(data),
     progress |-> IF onProgress
                  THEN ManipFinalProgress(data.length,
                           ManipProgress([last |-> -1, log |-> <<>>],
                                         0, PixelCount(data), data.length))
                  ELSE <<>>]

\* ------------------------------------------ convertToGrayscaleInPlace
\* A value stored into a Uint8ClampedArray.
ToUint8Clamped(v) == Min(255, Max(0, v))

\* Math.floor in place of Math.round.
grayscaleFloor(r, g, b) ==
    AddDouble(AddDouble(MulDouble(Thousandths(299), r),
                        MulDouble(Thousandths(587), g)),
              MulDouble(Thousandths(114), b)).int

\* Math.round(0.299 * r + 0.587 * g + 0.114 * b), evaluated left to right
\* in doubles.
grayscale(r, g, b) ==
    MathRound(AddDouble(AddDouble(MulDouble(Thousandths(299), r),
                                  MulDouble(Thousandths(587), g)),
                        MulDouble(Thousandths(114), b)))

\* The loop body without `data[i + 2] = grayscale`.
GrayWriteNoBlue(tile, k) ==
    LET v == ToUint8Clamped(grayscale(tile[4 * k + 1], tile[4 * k + 2],
                                      tile[4 * k + 3]))
    IN  <<v, v, tile[4 * k + 3], tile[4 * k + 4]>>

\* One iteration of the loop, on the pixel in slot k of the tile: the four
\* bytes of the pixel afterwards.
GrayWrite(tile, k) ==
    LET v == ToUint8Clamped(grayscale(tile[4 * k + 1], tile[4 * k + 2],
                                      tile[4 * k + 3]))
    IN  <<v, v, v, tile[4 * k + 4]>>

\* convertToGrayscaleInPlace(imageData): imageData.data afterwards.  The
\* loop treats every pixel alike, so a periodic buffer stays periodic.
\* (Appending <<>> makes the bytes a tuple, each computed once.)
convertToGrayscaleInPlace(data) ==
    [length |-> data.length,
     tile |-> [j \in 1 .. Len(data.tile) |->
                  GrayWrite(data.tile, (j - 1) \div 4)[((j - 1) % 4) + 1]]
              \o <<>>]

\* --------------------------------------------------- applySobelFilter
SOBEL_X_KERNEL == <<<<-1, 0, 1>>, <<-2, 0, 2>>, <<-1, 0, 1>>>>
SOBEL_Y_KERNEL == <<<<-1, -2, -1>>, <<0, 0, 0>>, <<1, 2, 1>>>>

\* _applyConvolutionKernelToGrayscale: the nine taps, each at coordinates
\* clamped to the image, reading the red byte.
applyConvolutionKernelToGrayscale(sourceData, x, y, width, height, kernel) ==
    LET Tap(kx, ky) ==
            LET pixelX == Min(width - 1, Max(0, x + kx))
                pixelY == Min(height - 1, Max(0, y + ky))
            IN  At(sourceData, (pixelY * width + pixelX) * 4)
                    * kernel[ky + 2][kx + 2]
    IN  Tap(-1, -1) + Tap(0, -1) + Tap(1, -1)
        + Tap(-1, 0) + Tap(0, 0) + Tap(1, 0)
        + Tap(-1, 1) + Tap(0, 1) + Tap(1, 1)

\* Math.round(Math.sqrt(n)) for an integer n >= 0: the m with
\* m - 0.5 <= sqrt(n) < m + 0.5.  sqrt(n) is never within 0.00008 of a
\* half for n up to 2 * 1020 * 1020, so the double gives the same m.
RoundSqrt(n) ==
    CHOOSE m \in 0 .. 1443 :
        /\ m = 0 \/ (2 * m - 1) * (2 * m - 1) <= 4 * n
        /\ 4 * n < (2 * m + 1) * (2 * m + 1)

\* Math.min(255, Math.max(0, Math.round(magnitude)))
clampedMagnitude(gx, gy) == Min(255, Max(0, RoundSqrt(gx * gx + gy * gy)))

\* createImageData(width, height) / new ImageData(width, height):
\* transparent black.
createImageData(width, height) ==
    [length |-> 4 * width * height,
     tile |-> [j \in 1 .. 4 * width * height |-> 0]]

\* target.data.set(source.data), for a source no longer than the target.
DataSet(target, source) ==
    [target EXCEPT !.tile = [j \in 1 .. Len(target.tile) |->
                                IF j <= source.length THEN source.tile[j]
                                ELSE target.tile[j]] \o <<>>]

\* The else branch for a missing source: opaque black.
FillOpaqueBlack(data) ==
    [data EXCEPT !.tile = [j \in 1 .. Len(data.tile) |->
                              IF (j - 1) % 4 = 3 THEN 255 ELSE 0]]

\* The output pixel at (x, y), from the grayscale copy.
SobelPixel(grayscaleData, x, y, width, height) ==
    LET gx == applyConvolutionKernelToGrayscale(grayscaleData, x, y, width,
                                                 height, SOBEL_X_KERNEL)
        gy == applyConvolutionKernelToGrayscale(grayscaleData, x, y, width,
                                                 height, SOBEL_Y_KERNEL)
        m == clampedMagnitude(gx, gy)
    IN  <<m, m, m, 255>>

\* The two nested loops over y and x.
SobelOutput(grayscaleData, width, height) ==
    [length |-> 4 * width * height,
     tile |-> [j \in 1 .. 4 * width * height |->
                  SobelPixel(grayscaleData, ((j - 1) \div 4) % width,
                             ((j - 1) \div 4) \div width,
                             width, height)[((j - 1) % 4) + 1]]]

\* The grayscale copy: the source's bytes set into a fresh ImageData and
\* converted there, or opaque black when there is no source.  `source` is
\* the source's data afterwards: nothing is written to it.
SobelGrayscale(source, width, height) ==
    IF source.present
    THEN [gray |-> convertToGrayscaleInPlace(
                       DataSet(createImageData(width, height), source.data)),
          source |-> source.data]
    ELSE [gray |-> FillOpaqueBlack(createImageData(width, height)),
          source |-> source.data]

\* applySobelFilter(sourceImageData, width, height), with ctxOk telling
\* whether getContext("2d") gave a context.  `data` is the data of the
\* ImageData returned, `source` the bytes of sourceImageData afterwards.
\* An ImageData of width or height 0 cannot be created (IndexSizeError),
\* and set() of a longer array throws RangeError.
applySobelFilter(source, width, height, ctxOk) ==
    IF width = 0 \/ height = 0
    THEN [outcome |-> "IndexSizeError", width |-> 0, height |-> 0,
          data |-> createImageData(0, 0), source |-> source.data]
    ELSE IF source.present /\ source.data.length > 4 * width * height
    THEN [outcome |-> "RangeError", width |-> 0, height |-> 0,
          data |-> createImageData(0, 0), source |-> source.data]
    ELSE IF ~ctxOk
    THEN [outcome |-> "returned", width |-> width, height |-> height,
          data |-> IF source.present
                   THEN DataSet(createImageData(width, height), source.data)
                   ELSE createImageData(width, height),
          source |-> source.data]
    ELSE LET g == SobelGrayscale(source, width, height)
         IN  [outcome |-> "returned", width |-> width, height |-> height,
              data |-> SobelOutput(g.gray, width, height),
              source |-> g.source]

\* ------------------------------------------- removeBackground: helpers
\* The gate with the pixel-count check moved ahead of the side check.
DimensionGatePixelsFirst(naturalWidth, naturalHeight) ==
    IF naturalWidth = 0 \/ naturalHeight = 0 THEN "ZeroDimension"
    ELSE IF naturalWidth * naturalHeight > MAX_TOTAL_IMAGE_PIXELS
         THEN "TooManyPixels"
    ELSE IF naturalWidth > MAX_DIMENSION_SIDE \/ naturalHeight > MAX_DIMENSION_SIDE
         THEN "DimensionTooLarge"
    ELSE "ok"

\* The three checks at the head of img.onload: "ok", or the kind of the
\* Error it rejects with.
DimensionGate(naturalWidth, naturalHeight) ==
    IF naturalWidth = 0 \/ naturalHeight = 0 THEN "ZeroDimension"
    ELSE IF naturalWidth > MAX_DIMENSION_SIDE \/ naturalHeight > MAX_DIMENSION_SIDE
         THEN "DimensionTooLarge"
    ELSE IF naturalWidth * naturalHeight > MAX_TOTAL_IMAGE_PIXELS
         THEN "TooManyPixels"
    ELSE "ok"

\* ctx.getImageData(0, 0, canvas.width, canvas.height) of the drawn image.
getImageData(image) ==
    [length |-> image.w * image.h * 4,
     tile |-> IF image.w * image.h = 0 THEN <<>> ELSE image.tile]

\* The sample list with the midpoints rounded up (Math.ceil for Math.floor).
samplePointsCeil(width, height) ==
    << <<0, 0>>, <<width - 1, 0>>,
       <<0, height - 1>>, <<width - 1, height - 1>>,
       <<(width + 1) \div 2, 0>>, <<(width + 1) \div 2, height - 1>>,
       <<0, (height + 1) \div 2>>, <<width - 1, (height + 1) \div 2>> >>

\* The eight sample points of removeBackground.
samplePoints(width, height) ==
    << <<0, 0>>, <<width - 1, 0>>,
       <<0, height - 1>>, <<width - 1, height - 1>>,
       <<width \div 2, 0>>, <<width \div 2, height - 1>>,
       <<0, height \div 2>>, <<width - 1, height \div 2>> >>

R_OFFSET(x, y, width, height) ==
    (Min(y, height - 1) * width + Min(x, width - 1)) * 4

\* One call of the forEach callback on the running sums.
SampleStep(acc, pt, data, width, height) ==
    LET off == R_OFFSET(pt[1], pt[2], width, height)
    IN  IF off + 3 < data.length
        THEN [rSum |-> acc.rSum + At(data, off),
              gSum |-> acc.gSum + At(data, off + 1),
              bSum |-> acc.bSum + At(data, off + 2),
              validSamples |-> acc.validSamples + 1]
        ELSE acc

RECURSIVE SampleAll(_, _, _, _, _, _)
SampleAll(acc, pts, k, data, width, height) ==
    IF k > Len(pts) THEN acc
    ELSE SampleAll(SampleStep(acc, pts[k], data, width, height),
                   pts, k + 1, data, width, height)

\* avgBgR, avgBgG, avgBgB as the fractions r/den, g/den, b/den.
AvgBg(sums, data) ==
    IF sums.validSamples > 0
    THEN [r |-> sums.rSum, g |-> sums.gSum, b |-> sums.bSum,
          den |-> sums.validSamples]
    ELSE [r |-> IF data.length > 0 THEN At(data, 0) ELSE 0,
          g |-> IF data.length > 1 THEN At(data, 1) ELSE 0,
          b |-> IF data.length > 2 THEN At(data, 2) ELSE 0,
          den |-> 1]

\* The background estimate of the inline sampler.
InlineSample(data, width, height) ==
    AvgBg(SampleAll([rSum |-> 0, gSum |-> 0, bSum |-> 0, validSamples |-> 0],
                    samplePoints(width, height), 1, data, width, height),
          data)

\* --------------------------------------------------- sampleAverageColor
\* One iteration of the for-of loop over samplePoints: the running sums,
\* and in `reads` the indices of data it has read.
SacStep(acc, pt, data, width, height) ==
    LET currentX == FloorHalf(pt[1])
        currentY == FloorHalf(pt[2])
        index == (currentY * width + currentX) * 4
    IN  IF /\ currentX >= 0 /\ currentX < width
           /\ currentY >= 0 /\ currentY < height
           /\ index + 2 < data.length
        THEN [rSum |-> acc.rSum + At(data, index),
              gSum |-> acc.gSum + At(data, index + 1),
              bSum |-> acc.bSum + At(data, index + 2),
              validSamples |-> acc.validSamples + 1,
              reads |-> acc.reads \cup {index, index + 1, index + 2}]
        ELSE acc

RECURSIVE SacAll(_, _, _, _, _, _)
SacAll(acc, pts, k, data, width, height) ==
    IF k > Len(pts) THEN acc
    ELSE SacAll(SacStep(acc, pts[k], data, width, height),
                pts, k + 1, data, width, height)

\* sampleAverageColor(imageData, width, height, samplePoints): null, or the
\* rounded means.
sampleAverageColor(data, width, height, pts) ==
    LET acc == SacAll([rSum |-> 0, gSum |-> 0, bSum |-> 0, validSamples |-> 0,
                       reads |-> {}], pts, 1, data, width, height)
    IN  IF acc.validSamples = 0
        THEN [isNull |-> TRUE, r |-> -1, g |-> -1, b |-> -1,
              validSamples |-> 0, reads |-> acc.reads]
        ELSE [isNull |-> FALSE,
              r |-> Round(acc.rSum, acc.validSamples),
              g |-> Round(acc.gSum, acc.validSamples),
              b |-> Round(acc.bSum, acc.validSamples),
              validSamples |-> acc.validSamples, reads |-> acc.reads]

\* diff squared, times den squared: the radicand of the Math.sqrt with the
\* fractions cleared.
InlineDiffSq(data, i, avg) ==
    (avg.den * At(data, i) - avg.r) * (avg.den * At(data, i) - avg.r)
    + (avg.den * At(data, i + 1) - avg.g) * (avg.den * At(data, i + 1) - avg.g)
    + (avg.den * At(data, i + 2) - avg.b) * (avg.den * At(data, i + 2) - avg.b)

\* The test of `if (diff < colorMatchTolerance)` for the pixel at byte i.
InlineMatches(data, i, avg) ==
    SqrtLt(InlineDiffSq(data, i, avg), colorMatchTolerance * avg.den)

\* The write with the channel offset off by one: it clears blue, not alpha.
InlineWriteBlue(tile, i, matches) ==
    IF matches THEN [tile EXCEPT ![i + 2 + 1] = 0] ELSE tile

\* The write of one iteration of the inline loop, on the tile.
InlineWrite(tile, i, matches) ==
    IF matches THEN [tile EXCEPT ![i + 3 + 1] = 0] ELSE tile

RECURSIVE InlineLoop(_, _, _)
InlineLoop(data, i, avg) ==
    IF i >= Len(data.tile) THEN data
    ELSE InlineLoop(
             [data EXCEPT !.tile =
                 InlineWrite(data.tile, i, InlineMatches(data, i, avg))],
             i + 4, avg)

\* Pixels the inline loop gets through: all of them, or MAX_ITERATIONS
\* before `iterations > MAX_ITERATIONS` throws.
InlineScanned(data) == Min(PixelCount(data), MAX_ITERATIONS)

\* The ceiling put at the pixel limit itself, and tripped on reaching it.
InlineThrowsAtPixelLimit(data) == PixelCount(data) >= MAX_TOTAL_IMAGE_PIXELS

InlineThrows(data) == PixelCount(data) > MAX_ITERATIONS

\* 30 + Math.floor(((i + 4) / data.length) * 60), for pixel k = i / 4;
\* (i + 4) / data.length and (k + 1) / totalPixelsToProcess are the same
\* quotient, so the same double.
currentTotalProgress(k, totalPixelsToProcess) ==
    30 + MulDouble(DivDouble(k + 1, totalPixelsToProcess), 60).int

\* The progress block of the iteration for pixel k, on
\* st = [last |-> lastReportedPixelProgress, log |-> the values passed].
InlineProgressStep(st, k, total) ==
    LET p == currentTotalProgress(k, total)
    IN  IF p > st.last /\ p <= 90
        THEN [last |-> p, log |-> Append(st.log, p)]
        ELSE st

\* The loop tests (i / 4) % Math.floor(totalPixelsToProcess / 100) === 0,
\* which only the multiples of step = floor(total / 100) pass, and none
\* when step is 0 (x % 0 is NaN).  The progress blocks of the pixels
\* lo * step, ..., (hi - 1) * step, in order, walked as two halves, the
\* first to its end before the second starts.  Once 90 has been reported
\* no later iteration reports (p > 90 fails p <= 90), so the second half is
\* then left out.
RECURSIVE InlineProgress(_, _, _, _, _)
InlineProgress(st, lo, hi, step, total) ==
    IF lo >= hi THEN st
    ELSE IF hi = lo + 1 THEN InlineProgressStep(st, lo * step, total)
    ELSE LET first == InlineProgress(st, lo, (lo + hi) \div 2, step, total)
         IN  IF first.last >= 90 THEN first
             ELSE InlineProgress(first, (lo + hi) \div 2, hi, step, total)

\* The values the inline loop passes to onProgress, lastReportedPixelProgress
\* starting at 30: the multiples of step below the pixels it gets through.
LoopProgress(data) ==
    LET total == PixelCount(data)
        step  == total \div 100
    IN  IF step = 0 THEN <<>>
        ELSE InlineProgress([last |-> 30, log |-> <<>>], 0,
                            ((InlineScanned(data) - 1) \div step) + 1,
                            step, total).log

\* canvas.toDataURL("image/png") after ctx.putImageData(imageData, 0, 0)
toDataURL(width, height, data) ==
    [mime |-> "image/png", w |-> width, h |-> height, data |-> data]

\* The late checkpoints without the closing onProgress(100).
LateCheckpointsNo100 == <<95>>

\* The fixed onProgress checkpoints of img.onload: before the matching loop
\* (dimensions validated, image drawn, background sampled) and after it
\* (loop done, image encoded).
EarlyCheckpoints == <<10, 20, 30>>
LateCheckpoints == <<95, 100>>

\* onProgress(100) moved ahead of putImageData and toDataURL.
CheckpointsBeforeEncodeAll == LateCheckpoints

\* The late checkpoints passed before putImageData and toDataURL, which
\* may throw: the 95.
CheckpointsBeforeEncode == SubSeq(LateCheckpoints, 1, 1)

\* The stages of one run, in the order the code reaches them.
StageOrder ==
    <<"Validating", "Decoding", "DimensionChecking", "Sampling", "Matching",
      "Encoding", "Done">>

\* img.onload of removeBackground, start to finish, as what the handler
\* does: settle is "resolved" or "rejected", error the kind of the Error,
\* result the data URL, progress the values passed to onProgress, stages the
\* stages entered, canvas whether the canvas was created, scanned the
\* pixels the matching loop visited.  ctxOk: getContext returned a context;
\* readOk: getImageData did not throw; encodeOk: putImageData and toDataURL
\* did not throw.
ImgOnLoadOutcome(image, onProgress, ctxOk, readOk, encodeOk) ==
    LET gate == DimensionGate(image.w, image.h)
        P(s) == IF onProgress THEN s ELSE <<>>
        data == getImageData(image)
        avg  == InlineSample(data, image.w, image.h)
        out  == InlineLoop(data, 0, avg)
        loop == P(LoopProgress(data))
        Rej(err, prog, st, cv, sc) ==
            [settle |-> "rejected", error |-> err, result |-> NoResult,
             progress |-> prog, stages |-> st, canvas |-> cv, scanned |-> sc]
    IN  IF gate # "ok"
        THEN Rej(gate, <<>>, <<"DimensionChecking">>, FALSE, 0)
        ELSE IF ~ctxOk
        THEN Rej("ContextUnavailable", P(SubSeq(EarlyCheckpoints, 1, 1)),
                 <<"DimensionChecking">>, TRUE, 0)
        ELSE IF ~readOk
        THEN Rej("CanvasProcessing", P(SubSeq(EarlyCheckpoints, 1, 2)),
                 <<"DimensionChecking">>, TRUE, 0)
        ELSE IF InlineThrows(data)
        THEN Rej("CanvasProcessing", P(EarlyCheckpoints) \o loop,
                 <<"DimensionChecking", "Sampling", "Matching">>, TRUE,
                 InlineScanned(data))
        ELSE IF ~encodeOk
        THEN Rej("CanvasProcessing",
                 P(EarlyCheckpoints) \o loop \o P(CheckpointsBeforeEncode),
                 <<"DimensionChecking", "Sampling", "Matching", "Encoding">>,
                 TRUE, InlineScanned(data))
        ELSE [settle |-> "resolved", error |-> None,
              result |-> toDataURL(image.w, image.h, out),
              progress |-> P(EarlyCheckpoints) \o loop \o P(LateCheckpoints),
              stages |-> <<"DimensionChecking", "Sampling", "Matching",
                           "Encoding", "Done">>,
              canvas |-> TRUE, scanned |-> InlineScanned(data)]

\* ------------------------------------------------------------- inputs
\* Three pixels: opaque black; a red at distance exactly 72 from black,
\* translucent; white, already transparent.
PA == <<0, 0, 0, 255>>
PB == <<72, 0, 0, 200>>
PC == <<255, 255, 255, 0>>
Palette == {PA, PB, PC}

RECURSIVE TilesOf(_)
TilesOf(n) ==
    IF n = 0 THEN {<<>>}
    ELSE {t \o p : t \in TilesOf(n - 1), p \in Palette}

\* Decoded images small enough to enumerate pixel by pixel.
SmallImages ==
    UNION {{[w |-> d[1], h |-> d[2], tile |-> t] : t \in TilesOf(d[1] * d[2])} :
           d \in {dd \in (1 .. MaxPixels) \X (1 .. MaxPixels) :
                     dd[1] * dd[2] <= MaxPixels}}

\* Decoded images on either side of each limit of the dimension gate.
GateImages ==
    {[w |-> d[1], h |-> d[2], tile |-> PA] :
        d \in {<<0, 5>>, <<5, 0>>, <<0, 9000>>, <<9000, 9000>>, <<8001, 1>>,
               <<1, 8001>>, <<10000, 1>>, <<8000, 8000>>, <<8000, 3751>>,
               <<8000, 3750>>, <<8000, 1>>}}

\* Larger periodic images that pass the gate: below and above the 100
\* pixels the loop's progress step needs, and the largest allowed.
LargeImages ==
    {[w |-> d[1], h |-> d[2], tile |-> PA \o PB] :
        d \in {<<99, 1>>, <<100, 2>>, <<150, 1>>, <<8000, 3750>>}}

\* Images for the resize: landscape, portrait and square, among them sides
\* whose scaled length falls on a half.
ResizeImages ==
    {[w |-> d[1], h |-> d[2], tile |-> PA] :
        d \in {<<22, 15>>, <<15, 22>>, <<4, 1>>, <<12, 12>>, <<11, 7>>}}

Images == SmallImages \cup GateImages \cup LargeImages \cup ResizeImages

NoImage == [w |-> 0, h |-> 0, tile |-> PA]
NoFile == [present |-> FALSE, isFile |-> FALSE, type |-> "", size |-> 0,
           image |-> NoImage]

MakeFile(isFile, type, size, image) ==
    [present |-> TRUE, isFile |-> isFile, type |-> type, size |-> size,
     image |-> image]

\* Candidates for the pipelines: every image in an acceptable file; a few
\* images in files with a wrong type, an excess size, or as a Blob.
Files ==
    {NoFile}
    \cup {MakeFile(TRUE, "image/png", maxSizeInBytes, im) : im \in Images}
    \cup {MakeFile(TRUE, "image/jpeg", MAX_FILE_SIZE_BYTES, im) :
             im \in {i \in Images : i.w * i.h <= 2 \/ i.w > 100}}
    \cup {MakeFile(m[1], m[2], m[3], im) :
             m \in {<<TRUE, "image/gif", 1024>>,
                    <<TRUE, "image/png", maxSizeInBytes + 1>>,
                    <<TRUE, "image/gif", maxSizeInBytes + 1>>,
                    <<FALSE, "image/webp", 1024>>},
             im \in {i \in Images : i.tile = PA /\ i.w \in {1, 9000}}}

\* Candidates for the validators alone: metadata only.
Types == {"image/jpeg", "image/png", "image/webp", "image/jpg", "image/gif", ""}
Sizes == {0, MAX_FILE_SIZE_BYTES, MAX_FILE_SIZE_BYTES + 1, maxSizeInBytes,
          maxSizeInBytes + 1}
MetaFiles ==
    {NoFile}
    \cup {MakeFile(f, t, s, NoImage) : f \in BOOLEAN, t \in Types, s \in Sizes}

\* options = {}
NoOptions ==
    [given |-> {}, maxFileSize |-> 0, allowedTypes |-> {}, targetMaxSide |-> 0]

\* Options for validateImageFile and for ensureProcessableImage.
ValidateOptions ==
    {[given |-> g, maxFileSize |-> maxSizeInBytes,
      allowedTypes |-> {"image/gif", "image/png"}, targetMaxSide |-> 0] :
        g \in SUBSET {"maxFileSize", "allowedTypes"}}

EnsureOptions ==
    {NoOptions}
    \cup {[given |-> {"maxFileSize", "targetMaxSide"},
           maxFileSize |-> maxSizeInBytes, allowedTypes |-> {},
           targetMaxSide |-> t] : t \in {1, 2, 11}}

\* Pixels up to which a buffer is handed an onProgress callback here.
MaxCountedPixels == 1000

\* Buffers for manipulateAlphaByColorMatch: every small one, the empty one,
\* and periodic ones up to and beyond the iteration ceiling.
MatchBuffers ==
    UNION {{[length |-> 4 * n, tile |-> t] : t \in TilesOf(n)} :
           n \in 1 .. MaxPixels}
    \cup {[length |-> 0, tile |-> <<>>]}
    \cup {[length |-> 4 * n, tile |-> PA \o PB \o PC] :
             n \in {100, 101, MAX_TOTAL_IMAGE_PIXELS, MAX_ITERATIONS,
                    MAX_ITERATIONS + 1}}

MatchTargets == {[r |-> 0, g |-> 0, b |-> 0], [r |-> 255, g |-> 255, b |-> 255]}
MatchTolerances == {0, 45, 72}

MatchArgs ==
    {a \in [data : MatchBuffers, targetRgb : MatchTargets,
            tolerance : MatchTolerances, onProgress : BOOLEAN] :
        a.onProgress => PixelCount(a.data) <= MaxCountedPixels}

\* Buffers for convertToGrayscaleInPlace: every one-pixel buffer that is
\* already gray, pixels whose weighted sum ends in a half, the small and
\* periodic buffers, the empty one.
GrayBuffers ==
    {[length |-> 4, tile |-> <<v, v, v, 255 - v>>] : v \in 0 .. 255}
    \cup {[length |-> 4 * (Len(t) \div 4), tile |-> t] :
              t \in {<<0, 36, 12, 200>>, <<0, 80, 110, 0>>,
                     <<13, 200, 77, 255, 1, 2, 250, 7>>}}
    \cup MatchBuffers

\* Largest side of the uniform images handed to applySobelFilter here.
MaxSobelSide == 3

\* w * h copies of one pixel.
Uniform(pixel, w, h) ==
    [length |-> 4 * w * h,
     tile |-> [j \in 1 .. 4 * w * h |-> pixel[((j - 1) % 4) + 1]]]

SobelColours == {PA, PB, PC, <<13, 200, 77, 128>>}

\* Arguments for applySobelFilter: uniform images of every small size,
\* images with edges in them, a missing source, a side of 0, and data
\* shorter and longer than width * height * 4.
SobelSources ==
    {[source |-> [present |-> TRUE, data |-> Uniform(c, w, h)],
      width |-> w, height |-> h] :
        c \in SobelColours, w \in 1 .. MaxSobelSide, h \in 1 .. MaxSobelSide}
    \cup {[source |-> [present |-> TRUE,
                       data |-> [length |-> Len(i[3]), tile |-> i[3]]],
           width |-> i[1], height |-> i[2]] :
              i \in {<<2, 2, PA \o PB \o PC \o PB>>,
                     <<3, 1, PC \o PB \o PA>>,
                     <<3, 3, PA \o PA \o PC \o PA \o PA \o PC
                             \o PA \o PB \o PC>>,
                     <<2, 1, PB>>,
                     <<1, 1, PB \o PC>>,
                     <<0, 2, <<>>>>,
                     <<2, 0, <<>>>>}}
    \cup {[source |-> [present |-> FALSE, data |-> createImageData(0, 0)],
           width |-> 2, height |-> 2]}

SobelArgs ==
    {[sourceImageData |-> a.source, width |-> a.width, height |-> a.height,
      ctxOk |-> c] : a \in SobelSources, c \in BOOLEAN}

\* Longest coordinate list handed to sampleAverageColor here.
MaxSamplePoints == 2

\* Coordinates in halves: -0.5, 0, 1.5, 2 across and -1, 0, 1 down.
SampleCoords == {-1, 0, 3, 4} \X {-2, 0, 2}

RECURSIVE ListsUpTo(_, _)
ListsUpTo(S, n) ==
    IF n = 0 THEN {<<>>}
    ELSE ListsUpTo(S, n - 1)
         \cup {Append(l, x) : l \in {m \in ListsUpTo(S, n - 1) : Len(m) = n - 1},
                              x \in S}

\* Image data with the width and height passed along: 1 x 1, 2 x 1 and
\* 1 x 2 images, the empty one, and one whose data is a pixel short.
SampleBuffers ==
    {[width |-> 1, height |-> 1, data |-> [length |-> 4, tile |-> t]] :
        t \in Palette}
    \cup {[width |-> 2, height |-> 1, data |-> [length |-> 8, tile |-> t]] :
              t \in {PA \o PB, PB \o PC, PC \o PC}}
    \cup {[width |-> 1, height |-> 2,
           data |-> [length |-> 8, tile |-> PA \o PC]],
          [width |-> 0, height |-> 0, data |-> [length |-> 0, tile |-> <<>>]],
          [width |-> 2, height |-> 1, data |-> [length |-> 4, tile |-> PB]]}

SampleArgs ==
    {[image |-> im, samplePoints |-> l] :
        im \in SampleBuffers, l \in ListsUpTo(SampleCoords, MaxSamplePoints)}

\* --------------------------------------------------------------- state
VARIABLES
    entry,    \* the exported operation this run exercises
    arg,      \* a direct call's arguments
    called,   \* a direct call has returned
    ret,      \* what it returned
    file,     \* imageFile / selectedImage / file
    rb,       \* the removeBackground invocation
    cid,      \* the checkImageDimensions invocation
    ip,       \* ImageProcessor: its state and where processImage stands
    calls,    \* the callbacks processImage has made to its parent, in order
    epi,      \* the ensureProcessableImage invocation
    pair,     \* two removeBackground invocations in flight together
    app       \* App: its state, the mounted ImageProcessor, the runs started

vars == <<entry, arg, called, ret, file, rb, cid, ip, calls, epi, pair, app>>

NoArg == [none |-> TRUE]
NoRet == [outcome |-> None]

\* A removeBackground promise before its executor ran.
RbIdle(onProgress) ==
    [pc |-> "idle", onProgress |-> onProgress, settle |-> "pending",
     error |-> None, result |-> NoResult, progress |-> <<>>, stages |-> <<>>,
     canvas |-> FALSE, scanned |-> 0, resolves |-> 0, rejects |-> 0,
     reads |-> 0, loads |-> 0]

\* In each invocation record, reads counts its reader.readAsDataURL calls
\* and loads its img.src assignments.
CidIdle ==
    [pc |-> "idle", settle |-> "pending", error |-> None,
     reads |-> 0, loads |-> 0]

\* `log` keeps the values a run has passed to setProgress, in order.
IpIdle == [pc |-> "idle", progress |-> 0, isProcessing |-> FALSE, log |-> <<>>]

EpiIdle(options) ==
    [pc |-> "idle", options |-> options, settle |-> "pending",
     error |-> None, result |-> NoResult, reads |-> 0, loads |-> 0]

\* reject(new Error(...)) on a promise record: only the first settlement
\* takes effect.
Reject(p, err) ==
    IF p.settle = "pending"
    THEN [p EXCEPT !.pc = "settled", !.settle = "rejected", !.error = err]
    ELSE [p EXCEPT !.pc = "settled"]

\* The executor with the `return` after each reject left out: it rejects
\* and starts the reader all the same.
RbExecutorNoReturn(imageFile, onProgress) ==
    LET p == RbIdle(onProgress)
        started == [p EXCEPT !.pc = "reading", !.reads = 1,
                             !.stages = <<"Validating", "Decoding">>]
    IN  IF ~imageFile.present \/ validateImage(imageFile) # "ok"
        THEN [started EXCEPT !.settle = "rejected", !.rejects = 1,
                 !.error = IF ~imageFile.present THEN "Empty"
                           ELSE validateImage(imageFile)]
        ELSE started

\* ----------------------------------------------------- removeBackground
\* The Promise executor: the presence check, validateImage, then
\* reader.readAsDataURL(imageFile).
RbExecutor(imageFile, onProgress) ==
    LET p == RbIdle(onProgress)
    IN  IF ~imageFile.present
        THEN [Reject(p, "Empty") EXCEPT !.rejects = 1, !.stages = <<"Validating">>]
        ELSE IF validateImage(imageFile) # "ok"
        THEN [Reject(p, validateImage(imageFile)) EXCEPT
                 !.rejects = 1, !.stages = <<"Validating">>]
        ELSE [p EXCEPT !.pc = "reading", !.reads = 1,
                       !.stages = <<"Validating", "Decoding">>]

\* reader.onload assigning img.src whatever the type of the result, and
\* rejecting as well when it is not a string.
RbReaderLoadedNoElse(p, isString) ==
    IF isString THEN [p EXCEPT !.pc = "loading", !.loads = @ + 1]
    ELSE [Reject(p, "ReadResultError") EXCEPT
             !.rejects = @ + 1, !.pc = "loading", !.loads = @ + 1]

\* reader.onload: hands the data URL to the Image, or rejects when the
\* result is not a string.
RbReaderLoaded(p, isString) ==
    IF isString THEN [p EXCEPT !.pc = "loading", !.loads = @ + 1]
    ELSE [Reject(p, "ReadResultError") EXCEPT !.rejects = @ + 1]

\* img.onload, as a step of the promise record.
RbImgLoaded(p, image, ctxOk, readOk, encodeOk) ==
    LET o == ImgOnLoadOutcome(image, p.onProgress, ctxOk, readOk, encodeOk)
    IN  [p EXCEPT !.pc = "settled",
                  !.settle = IF p.settle = "pending" THEN o.settle ELSE @,
                  !.error = IF p.settle = "pending" THEN o.error ELSE @,
                  !.result = IF p.settle = "pending" THEN o.result ELSE @,
                  !.progress = @ \o o.progress,
                  !.stages = @ \o o.stages,
                  !.canvas = o.canvas,
                  !.scanned = o.scanned,
                  !.resolves = @ + (IF o.settle = "resolved" THEN 1 ELSE 0),
                  !.rejects = @ + (IF o.settle = "rejected" THEN 1 ELSE 0)]

\* ---------------------------------------------------------- processImage
MAX_IMAGE_DIMENSION == 8000

Call(fn, msg, url) == [fn |-> fn, msg |-> msg, url |-> url]

\* Math.floor(progressPercent * 0.95) of the percentages 0 .. 100, the
\* literal 0.95 being the double nearest to 95 / 100 and the product
\* rounded to a double: entry p + 1 belongs to percentage p.
FlooredScale ==
    [k \in 1 .. 101 |-> MulDouble(DivDouble(95, 100), k - 1).int] \o <<>>

\* The scaling without its offset of 5.
ScaledProgressNoOffset(progressPercent) ==
    FlooredScale[progressPercent + 1]

\* setProgress(5 + Math.floor(progressPercent * 0.95))
ScaledProgress(progressPercent) ==
    5 + FlooredScale[progressPercent + 1]

\* The catch block without its setProgress(0).
PiCatchKeepsProgress(i) ==
    [i EXCEPT !.pc = "done", !.isProcessing = FALSE]

\* setProgress(0) of the catch block and setIsProcessing(false) of the
\* finally block, on ImageProcessor's state i.
PiCatch(i) ==
    [i EXCEPT !.pc = "done", !.progress = 0, !.isProcessing = FALSE,
              !.log = Append(@, 0)]

\* The catch and finally blocks of processImage.
PiFail(err) ==
    /\ calls' = Append(calls, Call("onError", err, NoResult))
    /\ ip' = PiCatch(ip)

\* The await resumed only by a resolution: after a rejection the run
\* stays where it is.
AfterRbResolvedOnly(p) ==
    IF entry # "processImage" THEN UNCHANGED <<ip, calls>>
    ELSE IF p.settle = "resolved"
    THEN /\ calls' = Append(calls, Call("onProcessingComplete", None, p.result))
         /\ ip' = [ip EXCEPT !.pc = "done", !.isProcessing = FALSE]
    ELSE /\ calls' = calls
         /\ ip' = [ip EXCEPT !.pc = "removing"]

\* What follows `await removeBackground(...)` once the promise p settles:
\* onProcessingComplete and finally, or catch and finally.  Until then the
\* progress callback has set the progress to the last value reported.
AfterRb(p) ==
    IF entry # "processImage" THEN UNCHANGED <<ip, calls>>
    ELSE LET reported == SubSeq(p.progress, Len(rb.progress) + 1,
                                Len(p.progress))
             seen == [ip EXCEPT
                         !.progress = IF reported # <<>>
                                      THEN ScaledProgress(Last(reported))
                                      ELSE @,
                         !.log = @ \o [k \in 1 .. Len(reported) |->
                                          ScaledProgress(reported[k])]]
         IN  IF p.settle = "resolved"
             THEN /\ calls' = Append(calls, Call("onProcessingComplete", None,
                                                 p.result))
                  /\ ip' = [seen EXCEPT !.pc = "done", !.isProcessing = FALSE]
             ELSE IF p.settle = "rejected"
             THEN /\ calls' = Append(calls, Call("onError", p.error, NoResult))
                  /\ ip' = PiCatch(seen)
             ELSE /\ calls' = calls
                  /\ ip' = [seen EXCEPT !.pc = "removing"]

\* The checks of checkImageDimensions' img.onload.
checkImageDimensions(naturalWidth, naturalHeight) ==
    IF naturalWidth > MAX_IMAGE_DIMENSION \/ naturalHeight > MAX_IMAGE_DIMENSION
    THEN "DimensionTooLarge"
    ELSE IF naturalWidth = 0 \/ naturalHeight = 0 THEN "ZeroDimension"
    ELSE "ok"

\* ------------------------------------------------ ensureProcessableImage
OptTargetMaxSide(options) ==
    IF "targetMaxSide" \in options.given THEN options.targetMaxSide
    ELSE MAX_PROCESSING_DIMENSION_SIDE

\* The resize taken also when a side equals targetMaxSide (`>=` for `>`).
ResizeDimsInclusive(originalWidth, originalHeight, targetMaxSide) ==
    IF originalWidth >= targetMaxSide \/ originalHeight >= targetMaxSide
    THEN IF originalWidth > originalHeight
         THEN [width |-> Max(1, targetMaxSide),
               height |-> Max(1, MathRound(MulDouble(
                                     DivDouble(originalHeight, originalWidth),
                                     targetMaxSide))),
               wasResized |-> TRUE]
         ELSE [width |-> Max(1, MathRound(MulDouble(
                                    DivDouble(originalWidth, originalHeight),
                                    targetMaxSide))),
               height |-> Max(1, targetMaxSide),
               wasResized |-> TRUE]
    ELSE [width |-> originalWidth, height |-> originalHeight,
          wasResized |-> FALSE]

\* Step 3 of ensureProcessableImage: the dimensions to draw at.
ResizeDims(originalWidth, originalHeight, targetMaxSide) ==
    IF originalWidth > targetMaxSide \/ originalHeight > targetMaxSide
    THEN IF originalWidth > originalHeight
         THEN [width |-> Max(1, targetMaxSide),
               height |-> Max(1, MathRound(MulDouble(
                                     DivDouble(originalHeight, originalWidth),
                                     targetMaxSide))),
               wasResized |-> TRUE]
         ELSE [width |-> Max(1, MathRound(MulDouble(
                                    DivDouble(originalWidth, originalHeight),
                                    targetMaxSide))),
               height |-> Max(1, targetMaxSide),
               wasResized |-> TRUE]
    ELSE [width |-> originalWidth, height |-> originalHeight,
          wasResized |-> FALSE]

\* ensureProcessableImage from the resolution of loadImageElement on.
EpiImgLoaded(p, image, ctxOk, encodeOk) ==
    LET d == ResizeDims(image.w, image.h, OptTargetMaxSide(p.options))
    IN  IF image.w = 0 \/ image.h = 0 THEN Reject(p, "ZeroDimension")
        ELSE IF ~ctxOk THEN Reject(p, "ContextUnavailable")
        ELSE IF ~encodeOk THEN Reject(p, "EncodeError")
        ELSE [p EXCEPT !.pc = "settled", !.settle = "resolved",
                       !.result = [mime |-> "image/png",
                                   width |-> d.width, height |-> d.height,
                                   wasResized |-> d.wasResized,
                                   originalWidth |-> image.w,
                                   originalHeight |-> image.h]]

\* ---------------------------------------------------------------- App
\* null, as a message, a file name or an error.
Null == "null"

\* A file with its name, as the uploader hands it over; null is NoSelection.
NoSelection == [name |-> "", file |-> NoFile]

AppCandidates ==
    {[name |-> "a.png",
      file |-> MakeFile(TRUE, "image/png", maxSizeInBytes,
                        [w |-> 1, h |-> 1, tile |-> PC])],
     [name |-> "b.png",
      file |-> MakeFile(TRUE, "image/png", maxSizeInBytes,
                        [w |-> 2, h |-> 1, tile |-> PA \o PB])],
     [name |-> "c.gif",
      file |-> MakeFile(TRUE, "image/gif", 1024,
                        [w |-> 1, h |-> 1, tile |-> PA])]}

\* Runs of processImage started, and changes of the selection made, in
\* one session.
MaxRuns == 2
MaxSelections == 3

\* ImageProcessor's own state at mount.
IpFresh == [progress |-> 0, isProcessing |-> FALSE]

\* App after its first render.  `instance` numbers the mounts of
\* ImageProcessor and `ip` is the state of the one mounted; `runs` are the
\* processImage runs started, each with the file and the instance it was
\* started from; `selections` counts the handleImageSelect calls.
AppIdle ==
    [selectedImage |-> NoSelection, processedImage |-> NoResult,
     isProcessing |-> FALSE, error |-> Null, originalFileName |-> "",
     instance |-> 0, ip |-> IpFresh, runs |-> <<>>, selections |-> 0]

\* {selectedImage && <ImageProcessor ... />}
Mounted(a) == a.selectedImage.file.present

handleImageSelect(a, sel) ==
    [a EXCEPT !.selectedImage = sel,
              !.processedImage = NoResult,
              !.error = Null,
              !.originalFileName = IF sel.file.present THEN sel.name ELSE "",
              !.selections = @ + 1,
              !.instance = IF ~Mounted(a) /\ sel.file.present THEN @ + 1 ELSE @,
              !.ip = IF Mounted(a) /\ sel.file.present THEN @ ELSE IpFresh]

\* handleProcessingComplete without its setError(null).
handleProcessingCompleteKeepsError(a, resultImageUrl) ==
    [a EXCEPT !.processedImage = resultImageUrl,
              !.isProcessing = FALSE]

handleProcessingComplete(a, resultImageUrl) ==
    [a EXCEPT !.processedImage = resultImageUrl,
              !.isProcessing = FALSE,
              !.error = Null]

handleError(a, errorMessage) ==
    [a EXCEPT !.error = errorMessage,
              !.processedImage = NoResult,
              !.isProcessing = FALSE]

handleSetIsProcessing(a, status) ==
    [a EXCEPT !.isProcessing = status,
              !.error = IF status THEN Null ELSE @,
              !.processedImage = IF status THEN NoResult ELSE @]

\* A state update by a run on the ImageProcessor instance it was started
\* from: it takes effect while that instance is mounted.
SetIp(a, r, ipNew) ==
    IF Mounted(a) /\ r.instance = a.instance THEN [a EXCEPT !.ip = ipNew]
    ELSE a

\* processImage from the click to its first await: onProcessingStart,
\* setIsProcessing(true), setProgress(0), onError(null), validateImage,
\* and the call of checkImageDimensions, or the catch and finally blocks.
AppProcessImage(a) ==
    LET sel == a.selectedImage
        started == handleError(handleSetIsProcessing(a, TRUE), Null)
        run == [sel |-> sel, instance |-> a.instance, pc |-> "checking",
                cid |-> [CidIdle EXCEPT !.pc = "reading", !.reads = 1],
                rb |-> RbIdle(TRUE), delivered |-> <<>>]
    IN  IF validateImage(sel.file) # "ok"
        THEN [handleError(started, validateImage(sel.file)) EXCEPT
                 !.ip = IpFresh,
                 !.runs = Append(@, [run EXCEPT
                              !.pc = "done", !.cid = CidIdle,
                              !.delivered = <<validateImage(sel.file)>>])]
        ELSE [started EXCEPT
                 !.ip = [progress |-> 0, isProcessing |-> TRUE],
                 !.runs = Append(@, run)]

\* The catch and finally blocks of run k: onError(error.message),
\* setProgress(0), setIsProcessing(false).
AppRunFail(a, k, err) ==
    LET r == a.runs[k]
        told == SetIp(handleError(a, err), r, IpFresh)
    IN  [told EXCEPT !.runs[k].pc = "done",
                     !.runs[k].delivered = Append(@, err)]

\* Run k after `await removeBackground(...)` resolves:
\* onProcessingComplete(processedImageUrl) and the finally block.
AppRunComplete(a, k, url) ==
    LET r == a.runs[k]
        told == handleProcessingComplete(a, url)
        after == IF Mounted(told) /\ r.instance = told.instance
                 THEN [told EXCEPT !.ip.isProcessing = FALSE]
                 ELSE told
    IN  [after EXCEPT !.runs[k].pc = "done",
                      !.runs[k].delivered = Append(@, "complete")]

\* Run k once its removeBackground promise p has taken a step: the
\* progress callback has set the progress to the last value reported.
AppAfterRb(a, k, p) ==
    LET r == a.runs[k]
        seen == IF p.progress # <<>>
                THEN SetIp(a, r, [a.ip EXCEPT
                         !.progress = ScaledProgress(Last(p.progress))])
                ELSE a
        kept == [seen EXCEPT !.runs[k].rb = p]
    IN  IF p.settle = "resolved" THEN AppRunComplete(kept, k, p.result)
        ELSE IF p.settle = "rejected" THEN AppRunFail(kept, k, p.error)
        ELSE kept

\* ---------------------------------------------------------------- Init
\* Files handed to two removeBackground calls made side by side.
PairFiles ==
    {f \in Files :
        /\ f.present /\ f.isFile /\ f.size = maxSizeInBytes
        /\ f.image \in {[w |-> 1, h |-> 1, tile |-> PC],
                        [w |-> 2, h |-> 1, tile |-> PA \o PB],
                        [w |-> 150, h |-> 1, tile |-> PA \o PB],
                        [w |-> 9000, h |-> 9000, tile |-> PA]}}
      \cup {f \in Files : f.type = "image/gif" /\ f.image.w = 1 /\ f.size = 1024}

NoPair == [inv |-> <<>>, files |-> <<>>]

\* `img` kept in one place for all invocations: every handler sees the
\* image of the first call.
OwnImageShared(files, k) == files[1].image

\* The image an invocation's own `img` decodes: that of its own imageFile.
OwnImage(files, k) == files[k].image

Quiet ==
    /\ called = FALSE /\ ret = NoRet
    /\ cid = CidIdle /\ ip = IpIdle /\ calls = <<>>
    /\ pair = NoPair
    /\ app = AppIdle

InitValidateImage ==
    /\ entry = "validateImage"
    /\ arg \in {[file |-> f, options |-> NoOptions] : f \in MetaFiles}
    /\ file = NoFile /\ rb = RbIdle(FALSE) /\ epi = EpiIdle(NoOptions)
    /\ Quiet

InitValidateImageFile ==
    /\ entry = "validateImageFile"
    /\ arg \in {[file |-> f, options |-> o] :
                   f \in MetaFiles, o \in ValidateOptions}
    /\ file = NoFile /\ rb = RbIdle(FALSE) /\ epi = EpiIdle(NoOptions)
    /\ Quiet

InitManipulate ==
    /\ entry = "manipulateAlphaByColorMatch"
    /\ arg \in MatchArgs
    /\ file = NoFile /\ rb = RbIdle(FALSE) /\ epi = EpiIdle(NoOptions)
    /\ Quiet

InitGrayscale ==
    /\ entry = "convertToGrayscaleInPlace"
    /\ arg \in {[imageData |-> d] : d \in GrayBuffers}
    /\ file = NoFile /\ rb = RbIdle(FALSE) /\ epi = EpiIdle(NoOptions)
    /\ Quiet

InitSobel ==
    /\ entry = "applySobelFilter"
    /\ arg \in SobelArgs
    /\ file = NoFile /\ rb = RbIdle(FALSE) /\ epi = EpiIdle(NoOptions)
    /\ Quiet

InitSample ==
    /\ entry = "sampleAverageColor"
    /\ arg \in SampleArgs
    /\ file = NoFile /\ rb = RbIdle(FALSE) /\ epi = EpiIdle(NoOptions)
    /\ Quiet

InitRemoveBackground ==
    /\ entry = "removeBackground"
    /\ arg = NoArg
    /\ file \in Files
    /\ rb \in {RbIdle(cb) : cb \in BOOLEAN}
    /\ epi = EpiIdle(NoOptions)
    /\ Quiet

\* The button that runs processImage is rendered only with a selected image.
InitProcessImage ==
    /\ entry = "processImage"
    /\ arg = NoArg
    /\ file \in Files \ {NoFile}
    /\ rb = RbIdle(TRUE) /\ epi = EpiIdle(NoOptions)
    /\ Quiet

InitEnsure ==
    /\ entry = "ensureProcessableImage"
    /\ arg = NoArg
    /\ file \in Files
    /\ rb = RbIdle(FALSE)
    /\ epi \in {EpiIdle(o) : o \in EnsureOptions}
    /\ Quiet

\* Two calls of removeBackground, each with a progress callback.
InitPair ==
    /\ entry = "removeBackgroundPair"
    /\ arg = NoArg
    /\ file = NoFile /\ rb = RbIdle(FALSE) /\ epi = EpiIdle(NoOptions)
    /\ called = FALSE /\ ret = NoRet
    /\ cid = CidIdle /\ ip = IpIdle /\ calls = <<>>
    /\ pair \in {[inv |-> <<RbIdle(TRUE), RbIdle(TRUE)>>, files |-> <<f, g>>] :
                    f \in PairFiles, g \in PairFiles}
    /\ app = AppIdle

\* The application after its first render: nothing selected.
InitApp ==
    /\ entry = "App"
    /\ arg = NoArg
    /\ file = NoFile /\ rb = RbIdle(FALSE) /\ epi = EpiIdle(NoOptions)
    /\ Quiet

Init ==
    \/ InitApp
    \/ InitSobel
    \/ InitGrayscale
    \/ InitPair
    \/ InitSample
    \/ InitValidateImage
    \/ InitValidateImageFile
    \/ InitManipulate
    \/ InitRemoveBackground
    \/ InitProcessImage
    \/ InitEnsure

\* ------------------------------------------------------- direct calls
CallValidateImage ==
    /\ entry = "validateImage" /\ ~called
    /\ called' = TRUE
    /\ ret' = [outcome |-> validateImage(arg.file)]
    /\ UNCHANGED <<app, pair, entry, arg, file, rb, cid, ip, calls, epi>>

CallValidateImageFile ==
    /\ entry = "validateImageFile" /\ ~called
    /\ called' = TRUE
    /\ ret' = [outcome |-> validateImageFile(arg.file, arg.options)]
    /\ UNCHANGED <<app, pair, entry, arg, file, rb, cid, ip, calls, epi>>

CallManipulate ==
    /\ entry = "manipulateAlphaByColorMatch" /\ ~called
    /\ called' = TRUE
    /\ ret' = manipulateAlphaByColorMatch(arg.data, arg.targetRgb,
                                          arg.tolerance, arg.onProgress)
    /\ UNCHANGED <<app, pair, entry, arg, file, rb, cid, ip, calls, epi>>

CallSampleAverageColor ==
    /\ entry = "sampleAverageColor" /\ ~called
    /\ called' = TRUE
    /\ ret' = sampleAverageColor(arg.image.data, arg.image.width,
                                 arg.image.height, arg.samplePoints)
    /\ UNCHANGED <<app, pair, entry, arg, file, rb, cid, ip, calls, epi>>

\* convertToGrayscaleInPlace(imageData), and once more on the same
\* imageData: ret.data is imageData.data after the call, ret.before what
\* it was when the call was made, ret.applied the calls so far.
CallConvertToGrayscaleInPlace ==
    /\ entry = "convertToGrayscaleInPlace"
    /\ IF called THEN ret.applied < 2 ELSE TRUE
    /\ called' = TRUE
    /\ LET before == IF called THEN ret.data ELSE arg.imageData
       IN  ret' = [outcome |-> "undefined",
                   data |-> convertToGrayscaleInPlace(before),
                   before |-> before,
                   applied |-> IF called THEN ret.applied + 1 ELSE 1]
    /\ UNCHANGED <<app, pair, entry, arg, file, rb, cid, ip, calls, epi>>

CallApplySobelFilter ==
    /\ entry = "applySobelFilter" /\ ~called
    /\ called' = TRUE
    /\ ret' = applySobelFilter(arg.sourceImageData, arg.width, arg.height,
                               arg.ctxOk)
    /\ UNCHANGED <<app, pair, entry, arg, file, rb, cid, ip, calls, epi>>

\* ------------------------------------------- removeBackground: actions
\* removeBackground(imageFile, onProgress) called directly.
RemoveBackground ==
    /\ entry = "removeBackground" /\ rb.pc = "idle"
    /\ rb' = RbExecutor(file, rb.onProgress)
    /\ UNCHANGED <<app, pair, entry, arg, called, ret, file, cid, ip, calls, epi>>

RbReaderOnLoad ==
    /\ rb.pc = "reading"
    /\ \E isString \in BOOLEAN : rb' = RbReaderLoaded(rb, isString)
    /\ AfterRb(rb')
    /\ UNCHANGED <<app, pair, entry, arg, called, ret, file, cid, epi>>

RbReaderOnError ==
    /\ rb.pc = "reading"
    /\ rb' = [Reject(rb, "ReadError") EXCEPT !.rejects = @ + 1]
    /\ AfterRb(rb')
    /\ UNCHANGED <<app, pair, entry, arg, called, ret, file, cid, epi>>

RbImgOnLoad ==
    /\ rb.pc = "loading"
    /\ \E ctxOk \in BOOLEAN, readOk \in BOOLEAN, encodeOk \in BOOLEAN :
          rb' = RbImgLoaded(rb, file.image, ctxOk, readOk, encodeOk)
    /\ AfterRb(rb')
    /\ UNCHANGED <<app, pair, entry, arg, called, ret, file, cid, epi>>

RbImgOnError ==
    /\ rb.pc = "loading"
    /\ rb' = [Reject(rb, "DecodeError") EXCEPT !.rejects = @ + 1]
    /\ AfterRb(rb')
    /\ UNCHANGED <<app, pair, entry, arg, called, ret, file, cid, epi>>

\* ----------------------------------------------- processImage: actions
\* A click on the button: processImage up to its first await.
ProcessImage ==
    /\ entry = "processImage" /\ ip.pc = "idle"
    /\ IF ~file.present
       THEN /\ calls' = <<Call("onError", "NoImageSelected", NoResult)>>
            /\ ip' = [ip EXCEPT !.pc = "done"]
            /\ UNCHANGED cid
       ELSE IF validateImage(file) # "ok"
       THEN /\ calls' = <<Call("onProcessingStart", None, NoResult),
                          Call("onError", "null", NoResult),
                          Call("onError", validateImage(file), NoResult)>>
            /\ ip' = [ip EXCEPT !.pc = "done", !.progress = 0,
                                !.isProcessing = FALSE, !.log = <<0, 0>>]
            /\ UNCHANGED cid
       ELSE /\ calls' = <<Call("onProcessingStart", None, NoResult),
                          Call("onError", "null", NoResult)>>
            /\ ip' = [ip EXCEPT !.pc = "checking", !.progress = 0,
                                !.isProcessing = TRUE, !.log = <<0>>]
            /\ cid' = [cid EXCEPT !.pc = "reading", !.reads = @ + 1]
    /\ UNCHANGED <<app, pair, entry, arg, called, ret, file, rb, epi>>

CidReaderOnLoad ==
    /\ cid.pc = "reading"
    /\ \E isString \in BOOLEAN :
          IF isString
          THEN /\ cid' = [cid EXCEPT !.pc = "loading", !.loads = @ + 1]
               /\ UNCHANGED <<ip, calls>>
          ELSE /\ cid' = Reject(cid, "ReadResultError")
               /\ PiFail("ReadResultError")
    /\ UNCHANGED <<app, pair, entry, arg, called, ret, file, rb, epi>>

CidReaderOnError ==
    /\ cid.pc = "reading"
    /\ cid' = Reject(cid, "ReadError")
    /\ PiFail("ReadError")
    /\ UNCHANGED <<app, pair, entry, arg, called, ret, file, rb, epi>>

\* img.onload of checkImageDimensions and, when it resolves, processImage
\* up to its second await: setProgress(5) and the removeBackground call.
CidImgOnLoad ==
    /\ cid.pc = "loading"
    /\ LET d == checkImageDimensions(file.image.w, file.image.h)
       IN  IF d # "ok"
           THEN /\ cid' = Reject(cid, d)
                /\ PiFail(d)
                /\ UNCHANGED rb
           ELSE /\ cid' = [cid EXCEPT !.pc = "settled", !.settle = "resolved"]
                /\ rb' = RbExecutor(file, TRUE)
                /\ IF rb'.settle = "pending"
                   THEN /\ ip' = [ip EXCEPT !.pc = "removing", !.progress = 5,
                                            !.log = Append(@, 5)]
                        /\ calls' = calls
                   ELSE AfterRb(rb')
    /\ UNCHANGED <<app, pair, entry, arg, called, ret, file, epi>>

CidImgOnError ==
    /\ cid.pc = "loading"
    /\ cid' = Reject(cid, "DecodeError")
    /\ PiFail("DecodeError")
    /\ UNCHANGED <<app, pair, entry, arg, called, ret, file, rb, epi>>

\* ensureProcessableImage starting the read before it validates.
EpiCallReadFirst(p, f) ==
    IF validateImageFile(f, p.options) # "ok"
    THEN [Reject(p, validateImageFile(f, p.options)) EXCEPT !.reads = @ + 1]
    ELSE [p EXCEPT !.pc = "reading", !.reads = @ + 1]

\* ------------------------------------- ensureProcessableImage: actions
\* The call: validateImageFile, then loadImageElement's readAsDataURL (the
\* file is a File once validation has passed).
EpiCall(p, f) ==
    IF validateImageFile(f, p.options) # "ok"
    THEN Reject(p, validateImageFile(f, p.options))
    ELSE [p EXCEPT !.pc = "reading", !.reads = @ + 1]

EnsureProcessableImage ==
    /\ entry = "ensureProcessableImage" /\ epi.pc = "idle"
    /\ epi' = EpiCall(epi, file)
    /\ UNCHANGED <<app, pair, entry, arg, called, ret, file, rb, cid, ip, calls>>

EpiReaderOnLoad ==
    /\ epi.pc = "reading"
    /\ \E isString \in BOOLEAN :
          IF isString
          THEN epi' = [epi EXCEPT !.pc = "loading", !.loads = @ + 1]
          ELSE epi' = Reject(epi, "ReadResultError")
    /\ UNCHANGED <<app, pair, entry, arg, called, ret, file, rb, cid, ip, calls>>

EpiReaderOnError ==
    /\ epi.pc = "reading"
    /\ epi' = Reject(epi, "ReadError")
    /\ UNCHANGED <<app, pair, entry, arg, called, ret, file, rb, cid, ip, calls>>

EpiImgOnLoad ==
    /\ epi.pc = "loading"
    /\ \E ctxOk \in BOOLEAN, encodeOk \in BOOLEAN :
          epi' = EpiImgLoaded(epi, file.image, ctxOk, encodeOk)
    /\ UNCHANGED <<app, pair, entry, arg, called, ret, file, rb, cid, ip, calls>>

EpiImgOnError ==
    /\ epi.pc = "loading"
    /\ epi' = Reject(epi, "DecodeError")
    /\ UNCHANGED <<app, pair, entry, arg, called, ret, file, rb, cid, ip, calls>>

\* ------------------------------- two removeBackground calls: actions
\* Invocation k of the pair takes the step its own closure defines; the
\* other invocation's record is not in scope of it.
PairCall ==
    /\ entry = "removeBackgroundPair"
    /\ \E k \in 1 .. 2 :
          /\ pair.inv[k].pc = "idle"
          /\ pair' = [pair EXCEPT !.inv[k] = RbExecutor(pair.files[k], TRUE)]
    /\ UNCHANGED <<app, entry, arg, called, ret, file, rb, cid, ip, calls, epi>>

PairReaderOnLoad ==
    /\ entry = "removeBackgroundPair"
    /\ \E k \in 1 .. 2, isString \in BOOLEAN :
          /\ pair.inv[k].pc = "reading"
          /\ pair' = [pair EXCEPT !.inv[k] = RbReaderLoaded(@, isString)]
    /\ UNCHANGED <<app, entry, arg, called, ret, file, rb, cid, ip, calls, epi>>

PairReaderOnError ==
    /\ entry = "removeBackgroundPair"
    /\ \E k \in 1 .. 2 :
          /\ pair.inv[k].pc = "reading"
          /\ pair' = [pair EXCEPT
                         !.inv[k] = [Reject(@, "ReadError") EXCEPT !.rejects = @ + 1]]
    /\ UNCHANGED <<app, entry, arg, called, ret, file, rb, cid, ip, calls, epi>>

PairImgOnLoad ==
    /\ entry = "removeBackgroundPair"
    /\ \E k \in 1 .. 2, ctxOk \in BOOLEAN, readOk \in BOOLEAN,
          encodeOk \in BOOLEAN :
          /\ pair.inv[k].pc = "loading"
          /\ pair' = [pair EXCEPT
                         !.inv[k] = RbImgLoaded(@, OwnImage(pair.files, k),
                                                ctxOk, readOk, encodeOk)]
    /\ UNCHANGED <<app, entry, arg, called, ret, file, rb, cid, ip, calls, epi>>

PairImgOnError ==
    /\ entry = "removeBackgroundPair"
    /\ \E k \in 1 .. 2 :
          /\ pair.inv[k].pc = "loading"
          /\ pair' = [pair EXCEPT
                         !.inv[k] = [Reject(@, "DecodeError") EXCEPT !.rejects = @ + 1]]
    /\ UNCHANGED <<app, entry, arg, called, ret, file, rb, cid, ip, calls, epi>>

\* ------------------------------------------------------- App: actions
\* onDrop: a file is dropped or picked.
AppSelectImage ==
    /\ entry = "App" /\ app.selections < MaxSelections
    /\ \E sel \in AppCandidates : app' = handleImageSelect(app, sel)
    /\ UNCHANGED <<entry, arg, called, ret, file, rb, cid, ip, calls, epi,
                   pair>>

\* The "Remove Selected Image" button, shown once a file was dropped.
AppRemoveImage ==
    /\ entry = "App" /\ app.selections < MaxSelections
    /\ Mounted(app)
    /\ app' = handleImageSelect(app, NoSelection)
    /\ UNCHANGED <<entry, arg, called, ret, file, rb, cid, ip, calls, epi,
                   pair>>

\* A click on the button ImageProcessor renders while its own isProcessing
\* is false.
AppClickProcess ==
    /\ entry = "App" /\ Len(app.runs) < MaxRuns
    /\ Mounted(app) /\ ~app.ip.isProcessing
    /\ app' = AppProcessImage(app)
    /\ UNCHANGED <<entry, arg, called, ret, file, rb, cid, ip, calls, epi,
                   pair>>

AppCidReaderOnLoad ==
    /\ entry = "App"
    /\ \E k \in 1 .. Len(app.runs), isString \in BOOLEAN :
          /\ app.runs[k].pc = "checking" /\ app.runs[k].cid.pc = "reading"
          /\ app' = IF isString
                    THEN [app EXCEPT !.runs[k].cid =
                             [@ EXCEPT !.pc = "loading", !.loads = @ + 1]]
                    ELSE AppRunFail([app EXCEPT !.runs[k].cid =
                                        Reject(@, "ReadResultError")],
                                    k, "ReadResultError")
    /\ UNCHANGED <<entry, arg, called, ret, file, rb, cid, ip, calls, epi,
                   pair>>

AppCidReaderOnError ==
    /\ entry = "App"
    /\ \E k \in 1 .. Len(app.runs) :
          /\ app.runs[k].pc = "checking" /\ app.runs[k].cid.pc = "reading"
          /\ app' = AppRunFail([app EXCEPT !.runs[k].cid =
                                    Reject(@, "ReadError")], k, "ReadError")
    /\ UNCHANGED <<entry, arg, called, ret, file, rb, cid, ip, calls, epi,
                   pair>>

\* img.onload of checkImageDimensions and, when it resolves, the run up to
\* its second await: setProgress(5) and the removeBackground call.
AppCidImgOnLoad ==
    /\ entry = "App"
    /\ \E k \in 1 .. Len(app.runs) :
          /\ app.runs[k].pc = "checking" /\ app.runs[k].cid.pc = "loading"
          /\ LET r == app.runs[k]
                 d == checkImageDimensions(r.sel.file.image.w,
                                           r.sel.file.image.h)
             IN  app' =
                   IF d # "ok"
                   THEN AppRunFail([app EXCEPT !.runs[k].cid = Reject(@, d)],
                                   k, d)
                   ELSE AppAfterRb(
                            SetIp([app EXCEPT
                                      !.runs[k].cid = [@ EXCEPT
                                          !.pc = "settled",
                                          !.settle = "resolved"],
                                      !.runs[k].pc = "removing"],
                                  r, [app.ip EXCEPT !.progress = 5]),
                            k, RbExecutor(r.sel.file, TRUE))
    /\ UNCHANGED <<entry, arg, called, ret, file, rb, cid, ip, calls, epi,
                   pair>>

AppCidImgOnError ==
    /\ entry = "App"
    /\ \E k \in 1 .. Len(app.runs) :
          /\ app.runs[k].pc = "checking" /\ app.runs[k].cid.pc = "loading"
          /\ app' = AppRunFail([app EXCEPT !.runs[k].cid =
                                    Reject(@, "DecodeError")], k, "DecodeError")
    /\ UNCHANGED <<entry, arg, called, ret, file, rb, cid, ip, calls, epi,
                   pair>>

AppRbReaderOnLoad ==
    /\ entry = "App"
    /\ \E k \in 1 .. Len(app.runs), isString \in BOOLEAN :
          /\ app.runs[k].pc = "removing" /\ app.runs[k].rb.pc = "reading"
          /\ app' = AppAfterRb(app, k, RbReaderLoaded(app.runs[k].rb, isString))
    /\ UNCHANGED <<entry, arg, called, ret, file, rb, cid, ip, calls, epi,
                   pair>>

AppRbReaderOnError ==
    /\ entry = "App"
    /\ \E k \in 1 .. Len(app.runs) :
          /\ app.runs[k].pc = "removing" /\ app.runs[k].rb.pc = "reading"
          /\ app' = AppAfterRb(app, k,
                         [Reject(app.runs[k].rb, "ReadError") EXCEPT
                             !.rejects = @ + 1])
    /\ UNCHANGED <<entry, arg, called, ret, file, rb, cid, ip, calls, epi,
                   pair>>

AppRbImgOnLoad ==
    /\ entry = "App"
    /\ \E k \in 1 .. Len(app.runs), ctxOk \in BOOLEAN, readOk \in BOOLEAN,
          encodeOk \in BOOLEAN :
          /\ app.runs[k].pc = "removing" /\ app.runs[k].rb.pc = "loading"
          /\ app' = AppAfterRb(app, k,
                         RbImgLoaded(app.runs[k].rb,
                                     app.runs[k].sel.file.image,
                                     ctxOk, readOk, encodeOk))
    /\ UNCHANGED <<entry, arg, called, ret, file, rb, cid, ip, calls, epi,
                   pair>>

AppRbImgOnError ==
    /\ entry = "App"
    /\ \E k \in 1 .. Len(app.runs) :
          /\ app.runs[k].pc = "removing" /\ app.runs[k].rb.pc = "loading"
          /\ app' = AppAfterRb(app, k,
                         [Reject(app.runs[k].rb, "DecodeError") EXCEPT
                             !.rejects = @ + 1])
    /\ UNCHANGED <<entry, arg, called, ret, file, rb, cid, ip, calls, epi,
                   pair>>

\* ---------------------------------------------------------------- Spec
Next ==
    \/ AppSelectImage
    \/ AppRemoveImage
    \/ AppClickProcess
    \/ AppCidReaderOnLoad
    \/ AppCidReaderOnError
    \/ AppCidImgOnLoad
    \/ AppCidImgOnError
    \/ AppRbReaderOnLoad
    \/ AppRbReaderOnError
    \/ AppRbImgOnLoad
    \/ AppRbImgOnError
    \/ CallApplySobelFilter
    \/ CallConvertToGrayscaleInPlace
    \/ CallSampleAverageColor
    \/ PairCall
    \/ PairReaderOnLoad
    \/ PairReaderOnError
    \/ PairImgOnLoad
    \/ PairImgOnError
    \/ CallValidateImage
    \/ CallValidateImageFile
    \/ CallManipulate
    \/ RemoveBackground
    \/ RbReaderOnLoad
    \/ RbReaderOnError
    \/ RbImgOnLoad
    \/ RbImgOnError
    \/ ProcessImage
    \/ CidReaderOnLoad
    \/ CidReaderOnError
    \/ CidImgOnLoad
    \/ CidImgOnError
    \/ EnsureProcessableImage
    \/ EpiReaderOnLoad
    \/ EpiReaderOnError
    \/ EpiImgOnLoad
    \/ EpiImgOnError

Spec == Init /\ [][Next]_vars

\* One run of processImage, with the callbacks the browser owes it: once a
\* read is started the FileReader fires onload or onerror, and once img.src
\* is assigned the Image fires onload or onerror.
ProcessImageNext ==
    \/ ProcessImage
    \/ CidReaderOnLoad
    \/ CidReaderOnError
    \/ CidImgOnLoad
    \/ CidImgOnError
    \/ RbReaderOnLoad
    \/ RbReaderOnError
    \/ RbImgOnLoad
    \/ RbImgOnError

LiveSpec ==
    /\ InitProcessImage
    /\ [][ProcessImageNext]_vars
    /\ WF_vars(CidReaderOnLoad \/ CidReaderOnError)
    /\ WF_vars(CidImgOnLoad \/ CidImgOnError)
    /\ WF_vars(RbReaderOnLoad \/ RbReaderOnError)
    /\ WF_vars(RbImgOnLoad \/ RbImgOnError)

\* ============================================================== claims
\* Squared RGB distance of the pixel in slot k of a tile to the colour
\* (r, g, b) / den.
PixelDistSq(tile, k, r, g, b, den) ==
    (den * tile[4 * k + 1] - r) * (den * tile[4 * k + 1] - r)
    + (den * tile[4 * k + 2] - g) * (den * tile[4 * k + 2] - g)
    + (den * tile[4 * k + 3] - b) * (den * tile[4 * k + 3] - b)

Alpha(tile, k) == tile[4 * k + 4]

ManipReturned == entry = "manipulateAlphaByColorMatch" /\ called

\* Squared distance of pixel k of the buffer passed to
\* manipulateAlphaByColorMatch to the target passed with it.
ManipDistSq(k) ==
    PixelDistSq(arg.data.tile, k, arg.targetRgb.r, arg.targetRgb.g,
                arg.targetRgb.b, 1)

\* The bytes removeBackground read from the canvas, and its estimate of the
\* background.
RbInput == getImageData(file.image)
RbAvg == InlineSample(RbInput, file.image.w, file.image.h)
RbDistSq(k) == PixelDistSq(RbInput.tile, k, RbAvg.r, RbAvg.g, RbAvg.b, RbAvg.den)
RbResolved == rb.settle = "resolved"

\* C1: after manipulateAlphaByColorMatch(buffer, target, tolerance) returns,
\* every pixel, whatever its alpha was before, has alpha 0 if and only if
\* its distance to the target before the call was strictly less than
\* tolerance.
C1_AlphaZeroIffStrictlyWithin ==
    ManipReturned =>
        \A k \in Slots(arg.data) :
            (Alpha(ret.data.tile, k) = 0)
                <=> (arg.tolerance > 0
                     /\ ManipDistSq(k) < arg.tolerance * arg.tolerance)

\* C2: in both matching loops a pixel whose distance to the target equals
\* the tolerance keeps its alpha; alpha is set to 0 only when the distance
\* is strictly less than the tolerance.
C2_ManipBoundaryKeepsAlpha ==
    ManipReturned =>
        \A k \in Slots(arg.data) :
            Alpha(ret.data.tile, k) # Alpha(arg.data.tile, k)
                => ManipDistSq(k) < arg.tolerance * arg.tolerance

C2_InlineBoundaryKeepsAlpha ==
    RbResolved =>
        \A k \in Slots(RbInput) :
            Alpha(rb.result.data.tile, k) # Alpha(RbInput.tile, k)
                => RbDistSq(k) < (45 * RbAvg.den) * (45 * RbAvg.den)

C2_BoundaryPixelKeepsAlpha ==
    C2_ManipBoundaryKeepsAlpha /\ C2_InlineBoundaryKeepsAlpha

\* What the loops may do to a buffer: same length, and a byte that differs
\* is an alpha byte that now holds 0.
OnlyAlphaCleared(before, after) ==
    /\ after.length = before.length
    /\ Len(after.tile) = Len(before.tile)
    /\ \A j \in 1 .. Len(before.tile) :
          after.tile[j] # before.tile[j] => (j % 4 = 0 /\ after.tile[j] = 0)

\* C3: manipulateAlphaByColorMatch and the matching loop of removeBackground
\* change no R, G or B byte and not the length of the buffer: they write
\* alpha bytes only, and only the value 0.
C3_OnlyAlphaWrittenWithZero ==
    /\ ManipReturned => OnlyAlphaCleared(arg.data, ret.data)
    /\ RbResolved => OnlyAlphaCleared(RbInput, rb.result.data)

\* C3 witness: a removeBackground run resolved with a buffer in which the
\* loop cleared one pixel's alpha and left another pixel's alpha alone.
C3_Witness ==
    /\ entry = "removeBackground" /\ RbResolved
    /\ \E k \in Slots(RbInput) :
          Alpha(rb.result.data.tile, k) = 0 /\ Alpha(RbInput.tile, k) # 0
    /\ \E k \in Slots(RbInput) :
          Alpha(rb.result.data.tile, k) = Alpha(RbInput.tile, k)
          /\ Alpha(RbInput.tile, k) # 0

\* C4: a removeBackground invocation settles exactly once: it resolves
\* with an image encoded after the loop has scanned every pixel, or it
\* rejects with an error and no image; never both.
C4_SettlesExactlyOnce ==
    /\ rb.resolves + rb.rejects <= 1
    /\ (rb.settle = "resolved") <=> (rb.resolves = 1)
    /\ (rb.settle = "rejected") <=> (rb.rejects = 1)
    /\ (rb.pc = "settled") => (rb.resolves + rb.rejects = 1)
    /\ RbResolved =>
          /\ rb.error = None /\ rb.result # NoResult
          /\ rb.scanned = PixelCount(RbInput)
          /\ \A k \in Slots(RbInput) :
                RbDistSq(k) < (45 * RbAvg.den) * (45 * RbAvg.den)
                    => Alpha(rb.result.data.tile, k) = 0
    /\ ~RbResolved => rb.result = NoResult

\* C4 witness: a run that resolved once, after a scan of two pixels or more.
C4_Witness ==
    /\ entry = "removeBackground" /\ RbResolved
    /\ rb.resolves = 1 /\ rb.rejects = 0
    /\ rb.scanned >= 2 /\ rb.scanned = PixelCount(RbInput)

\* Stages a run has entered when it fails with an error of the given kind.
StagesAtError(err) ==
    CASE err \in {"Empty", "InvalidType", "FileTooLarge"} -> {1}
      [] err \in {"ReadError", "ReadResultError", "DecodeError"} -> {2}
      [] err \in {"ZeroDimension", "DimensionTooLarge", "TooManyPixels",
                  "ContextUnavailable"} -> {3}
      [] err = "CanvasProcessing" -> {3, 5, 6}
      [] OTHER -> {}

\* C5: the stages of a removeBackground run are a prefix of Validating,
\* Decoding, DimensionChecking, Sampling, Matching, Encoding, Done; a run
\* that resolves has gone through all of them; a run that fails is over
\* (nothing of it is left to run) with no stage entered past the one that
\* failed; and an image the dimension gate rejects gets no canvas and no
\* Sampling.
C5_StagesInOrderFailureEndsRun ==
    /\ IsPrefix(rb.stages, StageOrder)
    /\ RbResolved => rb.stages = StageOrder
    /\ rb.settle = "rejected" =>
          /\ rb.pc = "settled"
          /\ Len(rb.stages) \in StagesAtError(rb.error)
          /\ \A j \in 1 .. Len(rb.stages) : rb.stages[j] # "Done"
    /\ rb.error \in {"ZeroDimension", "DimensionTooLarge", "TooManyPixels"} =>
          /\ ~rb.canvas
          /\ rb.stages = <<"Validating", "Decoding", "DimensionChecking">>
          /\ rb.scanned = 0 /\ rb.progress = <<>>

\* C5 witness: an image of 8000 x 3751 stopped by the gate's pixel count.
C5_Witness ==
    /\ rb.settle = "rejected" /\ rb.error = "TooManyPixels"
    /\ file.image.w = 8000 /\ file.image.h = 3751
    /\ Last(rb.stages) = "DimensionChecking" /\ ~rb.canvas

\* C6: the values one removeBackground invocation passes to onProgress are
\* integers in 0 .. 100, never decreasing, and in a run that resolves the
\* last one is 100, whatever the size of the image.
C6_ProgressMonotoneEndsAt100 ==
    /\ \A j \in 1 .. Len(rb.progress) : rb.progress[j] \in 0 .. 100
    /\ \A j \in 1 .. Len(rb.progress) - 1 : rb.progress[j] <= rb.progress[j + 1]
    /\ (RbResolved /\ rb.onProgress) =>
          (rb.progress # <<>> /\ Last(rb.progress) = 100)

\* C6 witness: a resolved run on an image of fewer than 100 pixels that
\* reported progress and ended on 100.
C6_Witness ==
    /\ RbResolved /\ rb.onProgress
    /\ PixelCount(RbInput) \in 1 .. 99
    /\ Len(rb.progress) >= 5 /\ Last(rb.progress) = 100

\* The image img.onload of removeBackground has looked at.
RbGateRan == Len(rb.stages) >= 3

\* C7: after decode removeBackground rejects as zero-dimension when width
\* or height is 0, else as dimension-too-large when the longer side exceeds
\* 8000, else as too-many-pixels when width * height exceeds 30,000,000;
\* it goes on to the canvas exactly when none of the three holds.
C7_DimensionGateOrder ==
    RbGateRan =>
        LET w == file.image.w
            h == file.image.h
            zero == w = 0 \/ h = 0
            side == Max(w, h) > 8000
            area == w * h > 30000000
        IN  /\ zero => (rb.settle = "rejected" /\ rb.error = "ZeroDimension")
            /\ (~zero /\ side) =>
                  (rb.settle = "rejected" /\ rb.error = "DimensionTooLarge")
            /\ (~zero /\ ~side /\ area) =>
                  (rb.settle = "rejected" /\ rb.error = "TooManyPixels")
            /\ rb.canvas <=> (~zero /\ ~side /\ ~area)

\* C7 witness: 9000 x 9000, over both limits, reported as too large a side.
C7_Witness ==
    /\ RbGateRan /\ file.image.w = 9000 /\ file.image.h = 9000
    /\ rb.settle = "rejected" /\ rb.error = "DimensionTooLarge"

\* What the three checks named by the claim give for a file, an allowed set
\* and a maximum size.
ThreeChecks(f, types, max) ==
    IF ~f.present THEN "Empty"
    ELSE IF f.type \notin types THEN "InvalidType"
    ELSE IF f.size > max THEN "FileTooLarge"
    ELSE "ok"

\* The allowed set and the maximum validateImageFile was called with.
VifTypes ==
    IF "allowedTypes" \in arg.options.given THEN arg.options.allowedTypes
    ELSE {"image/jpeg", "image/png", "image/webp", "image/jpg"}
VifMax ==
    IF "maxFileSize" \in arg.options.given THEN arg.options.maxFileSize
    ELSE 15 * 1024 * 1024

ValidateImageReturned == entry = "validateImage" /\ called
ValidateImageFileReturned == entry = "validateImageFile" /\ called

\* C8 as stated: validateImage, and validateImageFile with its options,
\* return true exactly when the file is present, of an allowed type and not
\* larger than the maximum, and throw otherwise, Empty before InvalidType
\* before FileTooLarge.
C8_ValidatorsAcceptExactlyThreeChecks ==
    /\ ValidateImageReturned =>
          ret.outcome = ThreeChecks(arg.file,
                            {"image/jpeg", "image/png", "image/webp", "image/jpg"},
                            20 * 1024 * 1024)
    /\ ValidateImageFileReturned =>
          ret.outcome = ThreeChecks(arg.file, VifTypes, VifMax)

\* C8 amended: as stated for validateImage; validateImageFile does the same
\* for File objects, and throws for a present value that is not a File
\* before it looks at type or size.
C8_ValidatorsFileObjectsOnly ==
    /\ ValidateImageReturned =>
          ret.outcome = ThreeChecks(arg.file,
                            {"image/jpeg", "image/png", "image/webp", "image/jpg"},
                            20 * 1024 * 1024)
    /\ ValidateImageFileReturned =>
          ret.outcome = IF arg.file.present /\ ~arg.file.isFile THEN "NotAFile"
                        ELSE ThreeChecks(arg.file, VifTypes, VifMax)

\* C8 witness: validateImage returned true for a file of exactly 20 MB.
C8_Witness ==
    /\ ValidateImageReturned /\ ret.outcome = "ok"
    /\ arg.file.size = 20 * 1024 * 1024

\* The file of a pipeline with its metadata only.
Metadata == MakeFile(file.isFile, file.type, file.size, NoImage)

\* C9: a candidate that fails validation is rejected with no FileReader
\* read and no Image load started for it, in removeBackground, processImage
\* and ensureProcessableImage, and with the error its metadata alone gives.
C9_ValidationBeforeDecode ==
    /\ (entry = "removeBackground" /\ rb.pc # "idle" /\ file.present
        /\ validateImage(file) # "ok") =>
          /\ rb.settle = "rejected" /\ rb.error = validateImage(Metadata)
          /\ rb.reads = 0 /\ rb.loads = 0
    /\ (entry = "processImage" /\ ip.pc # "idle"
        /\ validateImage(file) # "ok") =>
          /\ ip.pc = "done" /\ Last(calls).fn = "onError"
          /\ Last(calls).msg = validateImage(Metadata)
          /\ cid.reads = 0 /\ cid.loads = 0 /\ rb.reads = 0 /\ rb.loads = 0
    /\ (entry = "ensureProcessableImage" /\ epi.pc # "idle" /\ file.present
        /\ validateImageFile(file, epi.options) # "ok") =>
          /\ epi.settle = "rejected"
          /\ epi.error = validateImageFile(Metadata, epi.options)
          /\ epi.reads = 0 /\ epi.loads = 0

\* C9 witness: ensureProcessableImage rejected a 9000 x 9000 image/gif as
\* of an invalid type, nothing read.
C9_Witness ==
    /\ entry = "ensureProcessableImage" /\ epi.settle = "rejected"
    /\ file.type = "image/gif" /\ file.image.w = 9000
    /\ epi.error = "InvalidType" /\ epi.reads = 0

\* C10: a matching scan over more than 1.5 x 30,000,000 pixels aborts
\* instead of scanning to the end and yields no output, in
\* manipulateAlphaByColorMatch as in the loop of removeBackground.
C10_OversizeScanAborts ==
    /\ (ManipReturned /\ PixelCount(arg.data) > 45000000)
           => (ret.threw /\ ret.scanned < PixelCount(arg.data))
    /\ (rb.pc = "settled" /\ rb.canvas /\ PixelCount(RbInput) > 45000000)
           => (rb.settle = "rejected" /\ rb.result = NoResult)

\* The error a processImage run failed with: that of the first stage that
\* failed.
PiError ==
    IF validateImage(file) # "ok" THEN validateImage(file)
    ELSE IF cid.settle = "rejected" THEN cid.error
    ELSE IF rb.settle = "rejected" THEN rb.error
    ELSE None

PiCalled(fn) == {j \in 1 .. Len(calls) : calls[j].fn = fn}

\* C11: when a processImage run fails, in validation, in the dimension
\* check or in removeBackground, onError gets the message of that error,
\* the progress is back at 0, isProcessing is false, and
\* onProcessingComplete is not called.
C11_FailureReportedAndReset ==
    (entry = "processImage" /\ ip.pc # "idle" /\ PiError # None) =>
        /\ ip.pc = "done"
        /\ Last(calls) = Call("onError", PiError, NoResult)
        /\ \A j \in PiCalled("onError") :
              j # Len(calls) => calls[j].msg = "null"
        /\ ip.progress = 0 /\ ~ip.isProcessing
        /\ PiCalled("onProcessingComplete") = {}

\* C11 witness: a run that failed inside removeBackground after progress
\* had been reported.
C11_Witness ==
    /\ entry = "processImage" /\ ip.pc = "done"
    /\ rb.settle = "rejected" /\ rb.error = "CanvasProcessing"
    /\ Len(rb.progress) >= 3
    /\ Last(calls).msg = "CanvasProcessing" /\ ip.progress = 0

\* Every record a removeBackground call on file f with a progress callback
\* can be in when it runs alone.
RbAlone(f) ==
    LET e == RbExecutor(f, TRUE)
        l == RbReaderLoaded(e, TRUE)
    IN  {RbIdle(TRUE), e}
        \cup (IF e.pc # "reading" THEN {}
              ELSE {l, RbReaderLoaded(e, FALSE),
                    [Reject(e, "ReadError") EXCEPT !.rejects = @ + 1],
                    [Reject(l, "DecodeError") EXCEPT !.rejects = @ + 1]}
                   \cup {RbImgLoaded(l, f.image, c[1], c[2], c[3]) :
                            c \in BOOLEAN \X BOOLEAN \X BOOLEAN})

\* C12: of two removeBackground invocations whose callbacks interleave in
\* any order, each is at every moment where a run of it alone could be:
\* same settlement, same result, same progress sequence.
C12_InvocationsDoNotInterfere ==
    entry = "removeBackgroundPair" =>
        \A k \in 1 .. 2 : pair.inv[k] \in RbAlone(pair.files[k])

\* C12 witness: the second call, on another image, has run from start to
\* resolution with loop progress while the first call is waiting for its
\* image to load.
C12_Witness ==
    /\ entry = "removeBackgroundPair"
    /\ pair.files[1].image # pair.files[2].image
    /\ pair.inv[1].pc = "loading"
    /\ pair.inv[2].settle = "resolved" /\ Len(pair.inv[2].progress) > 5

\* Channel c of the pixel at (x, y) of the image removeBackground decoded.
RbPixel(x, y, c) == At(RbInput, (y * file.image.w + x) * 4 + c)

\* Eight times the mean of channel c over the four corners and the four
\* edge midpoints, each point counted once.
RbEightSum(c) ==
    LET w == file.image.w
        h == file.image.h
    IN  RbPixel(0, 0, c) + RbPixel(w - 1, 0, c)
        + RbPixel(0, h - 1, c) + RbPixel(w - 1, h - 1, c)
        + RbPixel(w \div 2, 0, c) + RbPixel(w \div 2, h - 1, c)
        + RbPixel(0, h \div 2, c) + RbPixel(w - 1, h \div 2, c)

RbSampled == Len(rb.stages) >= 4

\* C13: for a decoded image of width and height at least 1 the background
\* estimate of removeBackground is the mean over exactly eight samples,
\* the four corners and the four edge midpoints (floor division), each
\* counted once also when points coincide; each channel is in 0 .. 255; and
\* it is the colour the pixels of a resolved run were matched against.
C13_EstimateIsMeanOfEight ==
    (entry \in {"removeBackground", "processImage"} /\ rb.pc # "idle"
     /\ file.image.w >= 1 /\ file.image.h >= 1) =>
        /\ RbAvg.den = 8
        /\ RbAvg.r = RbEightSum(0) /\ RbAvg.g = RbEightSum(1)
        /\ RbAvg.b = RbEightSum(2)
        /\ \A v \in {RbAvg.r, RbAvg.g, RbAvg.b} : 0 <= v /\ v <= 255 * RbAvg.den
        /\ RbResolved =>
              \A k \in Slots(RbInput) :
                  (Alpha(rb.result.data.tile, k) # Alpha(RbInput.tile, k))
                      => PixelDistSq(RbInput.tile, k, RbEightSum(0),
                                     RbEightSum(1), RbEightSum(2), 8)
                             < (45 * 8) * (45 * 8)

\* C13 witness: a run that sampled a 3 x 1 image whose three pixels differ,
\* where corners and midpoints share pixels.
C13_Witness ==
    /\ entry = "removeBackground" /\ RbSampled
    /\ file.image.w = 3 /\ file.image.h = 1
    /\ file.image.tile = PA \o PB \o PC
    /\ RbAvg.den = 8 /\ RbAvg.r = 3 * 0 + 2 * 72 + 3 * 255

SacReturned == entry = "sampleAverageColor" /\ called

\* The image passed to sampleAverageColor has pixels, and all of them.
SacWholeImage ==
    /\ arg.image.width >= 1 /\ arg.image.height >= 1
    /\ arg.image.data.length = arg.image.width * arg.image.height * 4

Clamp(v, lo, hi) == Max(lo, Min(v, hi))

\* Sum of channel c over the listed points from the k-th on, each clamped
\* into the image.
RECURSIVE SacClampedSum(_, _)
SacClampedSum(k, c) ==
    IF k > Len(arg.samplePoints) THEN 0
    ELSE LET x == Clamp(FloorHalf(arg.samplePoints[k][1]), 0,
                        arg.image.width - 1)
             y == Clamp(FloorHalf(arg.samplePoints[k][2]), 0,
                        arg.image.height - 1)
         IN  At(arg.image.data, (y * arg.image.width + x) * 4 + c)
             + SacClampedSum(k + 1, c)

\* C14: the estimators clamp each listed coordinate into the image before
\* the lookup, so that every listed point contributes to the average, none
\* is skipped, and no read falls outside the pixel data.
C14_EveryPointClampedAndCounted ==
    /\ SacReturned => ret.reads \subseteq 0 .. arg.image.data.length - 1
    /\ (SacReturned /\ SacWholeImage /\ arg.samplePoints # <<>>) =>
          /\ ret.validSamples = Len(arg.samplePoints)
          /\ ~ret.isNull
          /\ ret.r = Round(SacClampedSum(1, 0), Len(arg.samplePoints))
          /\ ret.g = Round(SacClampedSum(1, 1), Len(arg.samplePoints))
          /\ ret.b = Round(SacClampedSum(1, 2), Len(arg.samplePoints))
    /\ (entry = "removeBackground" /\ RbSampled) => RbAvg.den = 8

\* C15: when no sample resolves to a pixel the estimate is the colour of
\* the first pixel, or (0, 0, 0) for a buffer without data; the estimators
\* always return a colour.
C15_FallbackColour ==
    /\ SacReturned =>
          /\ ~ret.isNull
          /\ ret.validSamples = 0 =>
                IF arg.image.data.length >= 3
                THEN /\ ret.r = At(arg.image.data, 0)
                     /\ ret.g = At(arg.image.data, 1)
                     /\ ret.b = At(arg.image.data, 2)
                ELSE ret.r = 0 /\ ret.g = 0 /\ ret.b = 0
    /\ (entry = "removeBackground" /\ RbSampled) => RbAvg.den >= 1

EpiResolved == entry = "ensureProcessableImage" /\ epi.settle = "resolved"

\* The targetMaxSide ensureProcessableImage ran with.
EpiTarget ==
    IF "targetMaxSide" \in epi.options.given THEN epi.options.targetMaxSide
    ELSE 4000

\* C16: when the decoded width or height exceeds targetMaxSide,
\* ensureProcessableImage makes the longer side targetMaxSide and the other
\* max(1, round(other * targetMaxSide / longer)); the longer new side is at
\* most targetMaxSide, both are at least 1, and the aspect ratio is kept
\* within one pixel.
C16_ResizeToTargetMaxSide ==
    (EpiResolved /\ (file.image.w > EpiTarget \/ file.image.h > EpiTarget)) =>
        LET longer == Max(file.image.w, file.image.h)
            other == Min(file.image.w, file.image.h)
            newLonger == IF file.image.w > file.image.h
                         THEN epi.result.width ELSE epi.result.height
            newOther == IF file.image.w > file.image.h
                        THEN epi.result.height ELSE epi.result.width
        IN  /\ newLonger = EpiTarget
            /\ newOther = Max(1, Round(other * EpiTarget, longer))
            /\ Max(epi.result.width, epi.result.height) <= EpiTarget
            /\ epi.result.width >= 1 /\ epi.result.height >= 1
            /\ newOther * longer - other * EpiTarget <= longer
            /\ other * EpiTarget - newOther * longer <= longer

\* C17: ensureProcessableImage keeps the decoded dimensions when both sides
\* are at most targetMaxSide; wasResized is true exactly when a side exceeds
\* it; originalWidth and originalHeight are the decoded dimensions.
C17_NoResizeWithinTarget ==
    EpiResolved =>
        /\ epi.result.originalWidth = file.image.w
        /\ epi.result.originalHeight = file.image.h
        /\ epi.result.wasResized
              <=> (file.image.w > EpiTarget \/ file.image.h > EpiTarget)
        /\ (file.image.w <= EpiTarget /\ file.image.h <= EpiTarget) =>
              /\ epi.result.width = file.image.w
              /\ epi.result.height = file.image.h
              /\ ~epi.result.wasResized

\* C17 witness: an 11 x 7 image, its longer side equal to a targetMaxSide of
\* 11, returned as it was.
C17_Witness ==
    /\ EpiResolved /\ EpiTarget = 11
    /\ file.image.w = 11 /\ file.image.h = 7
    /\ epi.result.width = 11 /\ epi.result.height = 7
    /\ ~epi.result.wasResized

\* C18: whenever manipulateAlphaByColorMatch is given a progress callback,
\* on any buffer, the empty one included, the values it passes are integers
\* in 0 .. 100, each strictly greater than the one before, and the last
\* one is 100.
C18_ProgressStrictlyIncreasingTo100 ==
    (ManipReturned /\ arg.onProgress) =>
        /\ ret.progress # <<>>
        /\ \A k \in 1 .. Len(ret.progress) : ret.progress[k] \in 0 .. 100
        /\ \A k \in 1 .. Len(ret.progress) - 1 :
               ret.progress[k] < ret.progress[k + 1]
        /\ Last(ret.progress) = 100

\* The empty buffer: the single report is 100.
C18_Witness ==
    /\ ManipReturned /\ arg.onProgress
    /\ arg.data.length = 0
    /\ ret.progress = <<100>>

GrayReturned == entry = "convertToGrayscaleInPlace" /\ called

\* C19: convertToGrayscaleInPlace is idempotent: applied a second time to
\* the same buffer it leaves every byte as the first application left it.
C19_GrayscaleIdempotent ==
    (GrayReturned /\ ret.applied = 2) => ret.data = ret.before

\* A pixel whose weighted sum 22.5 comes out just below the half in
\* doubles: 22 after the first application, and 22 after the second.
C19_Witness ==
    /\ GrayReturned /\ ret.applied = 2
    /\ arg.imageData.tile = <<0, 36, 12, 200>>
    /\ ret.data.tile = <<22, 22, 22, 200>>

SobelReturned ==
    entry = "applySobelFilter" /\ called /\ ret.outcome = "returned"

\* The source handed to applySobelFilter has width * height pixels, at
\* least one, all of one colour and alpha.
SobelUniformSource ==
    /\ arg.sourceImageData.present
    /\ arg.width >= 1 /\ arg.height >= 1
    /\ arg.sourceImageData.data.length = 4 * arg.width * arg.height
    /\ \A j \in 1 .. arg.sourceImageData.data.length - 4 :
           arg.sourceImageData.data.tile[j]
               = arg.sourceImageData.data.tile[j + 4]

OpaqueBlack(data) ==
    \A j \in 1 .. Len(data.tile) :
        data.tile[j] = IF (j - 1) % 4 = 3 THEN 255 ELSE 0

\* C21: applySobelFilter on a buffer whose pixels all have one colour
\* returns a buffer of the same width and height in which every pixel is
\* (0, 0, 0, 255).  Without a 2D context the copy returned has the
\* source's colour.
C21_UniformGivesOpaqueBlack ==
    (entry = "applySobelFilter" /\ called /\ SobelUniformSource) =>
        /\ ret.outcome = "returned"
        /\ ret.width = arg.width /\ ret.height = arg.height
        /\ ret.data.length = 4 * arg.width * arg.height
        /\ Len(ret.data.tile) = ret.data.length
        /\ OpaqueBlack(ret.data)

\* C22: whenever applySobelFilter returns, what it returns has the
\* dimensions asked for, the source's bytes are as they were, and every
\* pixel returned has alpha 255.  Without a 2D context the copy returned
\* has the source's alpha.
C22_NewBufferSourceKeptAlphaOpaque ==
    SobelReturned =>
        /\ ret.width = arg.width /\ ret.height = arg.height
        /\ ret.data.length = 4 * arg.width * arg.height
        /\ Len(ret.data.tile) = ret.data.length
        /\ ret.source = arg.sourceImageData.data
        /\ \A k \in 0 .. PixelCount(ret.data) - 1 :
               ret.data.tile[4 * k + 4] = 255

\* The runs of processImage that have not yet reached their finally block.
AppPending == {k \in 1 .. Len(app.runs) : app.runs[k].pc # "done"}

\* What removeBackground resolves with for a selection.
ResultFor(sel) ==
    ImgOnLoadOutcome(sel.file.image, TRUE, TRUE, TRUE, TRUE).result

\* C23: whenever App holds a processed image, an image is selected and the
\* processed image is the result of processing that image (so the download
\* named after originalFileName carries the right picture).
C23_ResultBelongsToSelection ==
    (entry = "App" /\ app.processedImage # NoResult) =>
        /\ Mounted(app)
        /\ app.originalFileName = app.selectedImage.name
        /\ app.processedImage = ResultFor(app.selectedImage)

\* C24: while a run of processImage is between its onProcessingStart and
\* its onProcessingComplete or onError(message), App's isProcessing is
\* true.
C24_AppProcessingWhileRunPending ==
    (entry = "App" /\ AppPending # {}) => app.isProcessing

\* C25: App never holds a processed image and an error together.
C25_ResultAndErrorExclusive ==
    entry = "App" => (app.processedImage = NoResult \/ app.error = Null)

\* A run failed after an earlier run had delivered its result: the error
\* is held and the result is gone.
C25_Witness ==
    /\ entry = "App"
    /\ Len(app.runs) = 2
    /\ app.runs[1].delivered = <<"complete">>
    /\ app.runs[2].delivered = <<"ReadError">>
    /\ app.error = "ReadError"
    /\ app.processedImage = NoResult

\* C26: at most one run of processImage is in flight at any time.
C26_AtMostOneRunInFlight ==
    entry = "App" => Cardinality(AppPending) <= 1

\* The onProcessingComplete(result) and onError(message) calls of the run.
PiDelivered ==
    {k \in 1 .. Len(calls) :
        \/ calls[k].fn = "onProcessingComplete"
        \/ calls[k].fn = "onError" /\ calls[k].msg # "null"}

PiFinished ==
    /\ ip.pc = "done"
    /\ ~ip.isProcessing
    /\ Cardinality(PiDelivered) = 1

\* C27: when the FileReader and the Image fire one of their callbacks each
\* time they are started, every run of processImage that was started
\* finishes: ImageProcessor's isProcessing is false again and exactly one
\* of onProcessingComplete(result) and onError(message) was delivered.
C27_RunEventuallyFinishes ==
    (ip.pc # "idle") ~> PiFinished

\* A run that went through both awaits and delivered its result.
C27_Witness ==
    /\ entry = "processImage" /\ PiFinished
    /\ rb.settle = "resolved"
    /\ Last(calls).fn = "onProcessingComplete"

\* The removeBackground invocations of the state, whichever way they were
\* started.
RbInvocations ==
    {rb} \cup {pair.inv[k] : k \in 1 .. Len(pair.inv)}
         \cup {app.runs[k].rb : k \in 1 .. Len(app.runs)}

\* C28: removeBackground reports 100 only in a run that resolves, and as
\* the last value; in a run that rejects every value reported is at most
\* 95.
C28_HundredOnlyWhenResolved ==
    \A p \in RbInvocations :
        /\ p.settle = "rejected" =>
               \A k \in 1 .. Len(p.progress) : p.progress[k] <= 95
        /\ \A k \in 1 .. Len(p.progress) :
               p.progress[k] = 100 =>
                   /\ k = Len(p.progress)
                   /\ p.settle = "resolved"

\* A run that reported 95 and then rejected, toDataURL having thrown.
C28_Witness ==
    /\ entry = "removeBackground"
    /\ rb.settle = "rejected" /\ rb.error = "CanvasProcessing"
    /\ rb.progress # <<>> /\ Last(rb.progress) = 95

\* C29: no removeBackground run is stopped by the iteration ceiling: an
\* image that passed the dimension gate has at most MAX_TOTAL_IMAGE_PIXELS
\* pixels, fewer than MAX_ITERATIONS, and no run ends in its matching loop.
C29_CeilingNeverTripped ==
    \A p \in RbInvocations :
        /\ p.scanned <= MAX_TOTAL_IMAGE_PIXELS
        /\ p.scanned < MAX_ITERATIONS
        /\ p.stages # <<>> => Last(p.stages) # "Matching"

\* The largest image the gate lets through, scanned to its last pixel.
C29_Witness ==
    /\ entry = "removeBackground"
    /\ file.image.w * file.image.h = MAX_TOTAL_IMAGE_PIXELS
    /\ rb.settle = "resolved"
    /\ rb.scanned = MAX_TOTAL_IMAGE_PIXELS

\* The run of processImage ended in its catch block.
PiFailed ==
    /\ ip.pc = "done"
    /\ \E k \in 1 .. Len(calls) :
           calls[k].fn = "onError" /\ calls[k].msg # "null"

\* The values the run displayed until it succeeded or failed: the log
\* without the setProgress(0) of the catch block.
PiShown ==
    IF PiFailed THEN SubSeq(ip.log, 1, Len(ip.log) - 1) ELSE ip.log

\* C30: within a run of processImage the progress held by ImageProcessor
\* stays in 0..100, starts at 0 and never decreases until the run succeeds
\* or fails, every value reported by removeBackground is displayed as
\* 5 + floor(95 * p / 100), and once removeBackground has reported 100 the
\* progress is 100.
C30_ProgressBoundedMonotoneScaled ==
    entry = "processImage" =>
        /\ ip.progress \in 0 .. 100
        /\ \A k \in 1 .. Len(ip.log) : ip.log[k] \in 0 .. 100
        /\ ip.pc # "idle" => PiShown # <<>> /\ PiShown[1] = 0
        /\ \A k \in 1 .. Len(PiShown) - 1 : PiShown[k] <= PiShown[k + 1]
        /\ rb.progress # <<>> =>
               PiShown = <<0, 5>> \o [k \in 1 .. Len(rb.progress) |->
                                        5 + ((95 * rb.progress[k]) \div 100)]
        /\ (rb.progress # <<>> /\ Last(rb.progress) = 100) =>
               ip.progress = 100 /\ ~PiFailed

\* A run that displayed every stage of removeBackground up to 100.
C30_Witness ==
    /\ entry = "processImage"
    /\ ip.pc = "done" /\ ~PiFailed
    /\ Len(rb.progress) >= 5
    /\ ip.progress = 100
    /\ ip.log[Len(ip.log)] = 100 /\ ip.log[Len(ip.log) - 1] < 100
====
